---- MODULE Spec2Model ----
(***************************************************************************)
(* A model of the TIDL API host library (Device / Kernel / Executor) and   *)
(* of the mnist example that drives it through ExecutionObjectPipelines.   *)
(*                                                                         *)
(* The OpenCL runtime is the environment: every cl* call the code checks   *)
(* may return an error code, an enqueued task is started and completed by  *)
(* the device, and a queue starts its tasks in submission order unless it  *)
(* was created with CL_QUEUE_OUT_OF_ORDER_EXEC_MODE_ENABLE.                *)
(***************************************************************************)
EXTENDS Integers, Sequences, FiniteSets, TLC

(***************************************************************************)
(* Bounds of the model.                                                    *)
(***************************************************************************)
\* Kernel API calls (RunAsync / Wait) a free caller makes in SpecKernel.
MaxCalls == 4
\* EVE devices a platform has at most; unit ids requested range over 0..MaxEves.
MaxEves == 2
\* Stages of a chained pipeline, frames it is given, and the largest device
\* time of a stage.
MaxStages == 2
MaxChainFrames == 2
MaxCycles == 1
\* Arguments of a Kernel.
MaxArgs == 2
\* Layers of a network.
MaxLayers == 3
\* Calls of Kernel::AddCallback made by one caller.
MaxCallbacks == 2
\* Calls of GetAPIVersion made in one process.
MaxApiCalls == 4
\* The largest frame count asked for on the command line.
MaxFrames == 3

(***************************************************************************)
(* Program constants.                                                      *)
(***************************************************************************)
\* tidl::internal::NUM_CONTEXTS, the size of Kernel::event_m.
NUM_CONTEXTS == 2
\* nullptr.
NULL == 0
\* cl_int values.
CL_SUCCESS == 0
CL_DEVICE_NOT_FOUND == -1
CL_OUT_OF_RESOURCES == -5
CL_INVALID_EVENT == -58
CL_BUILD_PROGRAM_FAILURE == -11
CL_INVALID_DEVICE == -33
CL_INVALID_COMMAND_QUEUE == -36
\* MAX_DEVICES, the size of Device::queue_m (DeviceId has ID0..ID3).
MAX_DEVICES == 4
\* NUM_SUB_DEVICES of DspDevice::DspDevice.
NUM_SUB_DEVICES == 2
\* SIGABRT, the argument the handler installed by main (exit) is called with.
SIGABRT == 6
EXIT_SUCCESS == 0
EXIT_FAILURE == 1

DeviceTypes == {"DSP", "EVE"}
Slots == 0 .. (NUM_CONTEXTS - 1)

DeviceIndexes == 0 .. (MAX_DEVICES - 1)

VARIABLES
    \* ---- Kernel, Device and the OpenCL runtime
    event_m,    \* Kernel::event_m: kernel -> context slot -> event handle or NULL
    events,     \* the OpenCL events created so far, indexed by handle (1..)
    queue_m,    \* Device::queue_m: device type -> index -> "null" | "open" | "released"
    hostWait,   \* <<k, s>> while the host is parked in Kernel::Wait(k, s), else <<>>
    ret,        \* the value the last completed Kernel::Wait returned
    log,        \* the Kernel calls made and the Wait results, in order
    proc,       \* "run", or how the process ended: "exit", "abort"
    exitcode,   \* the process exit status once proc = "exit"
    heap,       \* ExecutorImpl::shared_networkparam_heap_m, per device type
    inbuf,      \* per EOP: the frame the host put in its input buffer
    outbuf,     \* per EOP: the frame whose result is in its output buffer
    \* ---- the platform and the Executor under construction or destruction
    plat,       \* what the OpenCL platform answers
    xc,         \* device type of the Executor being constructed / destroyed
    xids,       \* ExecutorImpl::device_ids_m of that Executor
    xpc,        \* where the constructor / destructor stands
    xi,         \* loop index over execution_objects_m
    dcont,      \* what follows the destructor: "thrown" | "deleted"
    exc,        \* <<error text>> of the tidl::Exception thrown last, else <<>>
    execution_objects_m, \* per device type: the device indexes of the EOs
    \* ---- the caller
    eops,       \* the ExecutionObjectPipelines: <<[eo, ctx]>> in creation order
    kut,        \* SpecKernel: the kernel the free caller drives
    \* ---- platform detection and the example program
    det,        \* what the OpenCL platform answers to the detection queries
    num_devs,   \* per device type: what GetNumDevices gave, or Unknown
    sigabrt,    \* the SIGABRT disposition: "default" | "exit"
    mpc,        \* where main / RunConfiguration stands ("none": not run)
    opts,       \* cmdline_opts_t: num_eves, num_dsps, num_frames
    buffer_factor, \* RunConfiguration: EOPs created over each EO
    eos,        \* RunConfiguration: the execution objects <<type, index>>
    frame_idx,  \* the driver loop's index
    reads,      \* per loop iteration so far: did ReadFrame succeed
    emitted,    \* the frames WriteFrameOutput reported, in order
    device_time, \* RunConfiguration: the terms added to device_time, each the
                \* execution object whose process time it is
    \* ---- Executor::GetAPIVersion
    build,      \* the build: _BUILD_VER and _BUILD_SHA as strings
    version,    \* the function's static std::string version
    api_versions, \* what the calls of GetAPIVersion returned, in order
    \* ---- Kernel construction and destruction
    kstate,     \* per kernel: "none" | "built" | "failed" | "destroyed"
    kargs,      \* per kernel: the KernelArgs it was constructed with
    setargs,    \* per kernel: its clSetKernelArg calls, in order
    buffers_m,  \* Kernel::buffers_m: the cl_mem handles the kernel keeps
    mem,        \* the cl_mem objects created: owner, flag, releases
    \* ---- an ExecutionObjectPipeline over a chain of execution objects
    chain,      \* its execution objects <<type, index>>, stage 1 first
    cbuf,       \* its buffers: cbuf[1] the input, cbuf[k + 1] stage k's output
    cread,      \* per stage: the input the stage's device call read
    ctimes,     \* per stage: the device time of the stage's last call
    cpc,        \* where the pipeline's caller stands
    cstage,     \* the stage StartAsync has issued last
    cframes,    \* the frames handed to StartAsync so far
    cout,       \* what the last Wait exposed: output and aggregate time
    \* ---- the network ExecutorImpl::Initialize prepares
    npc,        \* "none" | "init" (constructed) | "prepared"
    configuration_m, \* Configuration: runFullNet, and what netBinFile holds
    layers_group_id_m, \* ExecutorImpl::layers_group_id_m
    net,        \* shared_createparam->net
    \* ---- completion notifications
    wrapper,    \* whether the weak symbol CallbackWrapper is linked
    callbacks,  \* the notifications clSetEventCallback registered:
                \* [h: event, user_data]
    invoked,    \* the calls of CallbackWrapper made: [h, user_data]
    \* ---- a tidl::Exception under construction
    eobj,       \* <<[args, message_m]>> once an Exception is constructed
    ewhat       \* <<what()>> once what() was called on it

devvars == <<event_m, events, queue_m, hostWait, ret, log, proc, exitcode,
             heap, inbuf, outbuf>>
xvars == <<plat, xc, xids, xpc, xi, dcont, exc, execution_objects_m>>
svars == <<build, version, api_versions>>
bvars == <<kstate, kargs, setargs, buffers_m, mem>>
cvars == <<chain, cbuf, cread, ctimes, cpc, cstage, cframes, cout>>
kvars == <<wrapper, callbacks, invoked>>
evars == <<eobj, ewhat>>
nvars == <<npc, configuration_m, layers_group_id_m, net>>
mvars == <<det, num_devs, sigabrt, mpc, opts, buffer_factor, eos, frame_idx,
           reads, emitted, device_time>>
vars == <<event_m, events, queue_m, hostWait, ret, log, proc, exitcode,
          heap, inbuf, outbuf, plat, xc, xids, xpc, xi, dcont, exc,
          execution_objects_m, eops, kut, det, num_devs, sigabrt, mpc, opts,
          buffer_factor, eos, frame_idx, reads, emitted, device_time, build, version,
          api_versions, kstate, kargs, setargs, buffers_m, mem, chain, cbuf, cread,
          ctimes, cpc, cstage, cframes, cout, npc, configuration_m,
          layers_group_id_m, net, wrapper, callbacks, invoked, eobj, ewhat>>

(***************************************************************************)
(* Kernels are named <<device type, device index, entry point>>.  A kernel *)
(* runs on the queue device_m->queue_m[device_index_m] of its Device.      *)
(***************************************************************************)
KernelNames == {"SETUP", "INIT", "PROCESS", "CLEANUP"}

AllKernels == DeviceTypes \X DeviceIndexes \X KernelNames

QueueOf(k) == <<k[1], k[2]>>

\* EveDevice creates its queues with CL_QUEUE_OUT_OF_ORDER_EXEC_MODE_ENABLE,
\* DspDevice with CL_QUEUE_PROFILING_ENABLE alone.
OutOfOrder_Always(q) == TRUE

OutOfOrder(q) == q[1] = "EVE"

\* exit(ret): the status the parent sees is the low byte of ret.
ExitStatus(code) == code % 256

Handles == DOMAIN events

HandlesOf(k, s) == {h \in Handles : events[h].kernel = k /\ events[h].slot = s}

MaxOf(S) == CHOOSE x \in S : \A y \in S : y <= x

MinOf(S) == CHOOSE x \in S : \A y \in S : x <= y

Finished_Any(h) == TRUE

Finished(h) == events[h].st \in {"complete", "error"}

\* The EOP whose buffers are bound to the PROCESS kernel of its execution
\* object for context slot s, 0 when there is none.
EopOf(k, s) ==
    LET E == {e \in DOMAIN eops : /\ k[3] = "PROCESS"
                                  /\ eops[e].eo = QueueOf(k)
                                  /\ eops[e].ctx = s}
    IN  IF E = {} THEN 0 ELSE MinOf(E)

(***************************************************************************)
(* The device side of a command queue.                                     *)
(***************************************************************************)
\* What a kernel reports in the errorCode of its parameter block; ABNORMAL
\* is a task the runtime terminated, its event ending with a negative
\* execution status.
DevResults(k) ==
    IF k[3] = "CLEANUP"
    THEN {"OCL_TIDL_SUCCESS", "ABNORMAL"}
    ELSE IF k[3] = "SETUP"
    THEN {"OCL_TIDL_SUCCESS", "OCL_TIDL_ERROR", "OCL_TIDL_ALLOC_FAIL",
          "OCL_TIDL_CREATE_PARAMS_MISMATCH", "ABNORMAL"}
    ELSE {"OCL_TIDL_SUCCESS", "OCL_TIDL_PROCESS_FAIL", "ABNORMAL"}

\* The kernels that write the parameter heap: the setup kernel fills it, the
\* calls of an execution object read it.
WritesHeap(k) == k[3] = "SETUP"

\* An in-order queue starts a task once every task enqueued on it earlier
\* has finished; an out-of-order queue may start any enqueued task.
CanStart_Any(h) == TRUE

CanStart(h) ==
    \/ OutOfOrder(QueueOf(events[h].kernel))
    \/ \A g \in Handles :
          (g < h /\ QueueOf(events[g].kernel) = QueueOf(events[h].kernel))
              => Finished(g)

\* The task starts: a PROCESS task reads the input buffer bound to it, the
\* setup task fills the parameter heap.
DevStart(h) ==
    /\ proc = "run"
    /\ events[h].st = "queued"
    /\ CanStart(h)
    /\ LET k == events[h].kernel
           e == EopOf(k, events[h].slot)
       IN  /\ events' = [events EXCEPT ![h].st = "running",
                            ![h].data = IF e = 0 THEN @ ELSE inbuf[e]]
           /\ heap' = IF WritesHeap(k)
                      THEN [heap EXCEPT ![k[1]].writers = @ \cup {h}]
                      ELSE heap
    /\ UNCHANGED <<event_m, queue_m, hostWait, ret, log, proc, exitcode,
                   inbuf, outbuf>>

\* The execution status a completion notification is given: CL_COMPLETE,
\* which is CL_SUCCESS, or the negative code of an abnormal termination.
ExecStatus(st) == IF st = "complete" THEN CL_SUCCESS ELSE CL_OUT_OF_RESOURCES

EventCallback_AnyStatus(exec_status, user_data) ==
    user_data # NULL /\ wrapper

\* EventCallback(event, exec_status, user_data): whether it calls
\* CallbackWrapper(user_data).
EventCallback(exec_status, user_data) ==
    IF exec_status # CL_SUCCESS \/ user_data = NULL THEN FALSE
    ELSE wrapper

\* The calls of CallbackWrapper the runtime's notifications of event h make
\* when h ends in state st.
Notified(regs, h, st) ==
    SelectSeq(regs,
              LAMBDA c : c.h = h /\ EventCallback(ExecStatus(st), c.user_data))

\* The task ends and reports res; a PROCESS task has written its output
\* buffer; the runtime runs the notifications registered on the event.
DevFinish(h, res) ==
    /\ proc = "run"
    /\ events[h].st = "running"
    /\ res \in DevResults(events[h].kernel)
    /\ LET e == EopOf(events[h].kernel, events[h].slot)
       IN  /\ events' = [events EXCEPT
                  ![h].st = IF res = "ABNORMAL" THEN "error" ELSE "complete",
                  ![h].code = res]
           /\ outbuf' = IF e = 0 THEN outbuf
                        ELSE [outbuf EXCEPT ![e] = events[h].data]
           /\ invoked' = invoked \o Notified(callbacks, h, events'[h].st)
    /\ UNCHANGED <<event_m, queue_m, hostWait, ret, log, proc, exitcode,
                   heap, inbuf, wrapper, callbacks>>

(***************************************************************************)
(* errorCheck(ret, line): anything but CL_SUCCESS prints and calls         *)
(* exit(ret).                                                              *)
(***************************************************************************)
errorCheckExits(cl_ret) == cl_ret # CL_SUCCESS

ExitWith(cl_ret) ==
    /\ proc' = "exit"
    /\ exitcode' = ExitStatus(cl_ret)

\* assert(...) failing, or an exception nobody catches: abort() raises
\* SIGABRT; with the handler main installs (exit) the process exits with
\* the signal number as its status.
Abort ==
    IF sigabrt = "exit"
    THEN /\ proc' = "exit"
         /\ exitcode' = ExitStatus(SIGABRT)
    ELSE /\ proc' = "abort"
         /\ exitcode' = exitcode

(***************************************************************************)
(* Kernel::RunAsync(context_idx): clEnqueueTask on the kernel's queue,     *)
(* the new event stored in event_m[context_idx]; errorCheck on the result. *)
(* The runtime refuses a queue handle that is no open queue.               *)
(***************************************************************************)
EnqueueResult(k, cl_ret) ==
    IF queue_m[k[1]][k[2]] = "open" THEN cl_ret ELSE CL_INVALID_COMMAND_QUEUE

Kernel_RunAsync_FirstSlot(k, s, cl_ret) ==
    /\ log' = Append(log, [op |-> "RunAsync", k |-> k, s |-> s, r |-> FALSE])
    /\ IF errorCheckExits(EnqueueResult(k, cl_ret))
       THEN /\ ExitWith(EnqueueResult(k, cl_ret))
            /\ UNCHANGED <<events, event_m>>
       ELSE /\ events' = Append(events,
                  [kernel |-> k, slot |-> s, st |-> "queued",
                   released |-> FALSE, code |-> "NONE", data |-> NULL])
            /\ event_m' = [event_m EXCEPT ![k][0] = Len(events) + 1]
            /\ UNCHANGED <<proc, exitcode>>
    /\ UNCHANGED <<hostWait, ret>>

Kernel_RunAsync(k, s, cl_ret) ==
    /\ log' = Append(log, [op |-> "RunAsync", k |-> k, s |-> s, r |-> FALSE])
    /\ IF errorCheckExits(EnqueueResult(k, cl_ret))
       THEN /\ ExitWith(EnqueueResult(k, cl_ret))
            /\ UNCHANGED <<events, event_m>>
       ELSE /\ events' = Append(events,
                  [kernel |-> k, slot |-> s, st |-> "queued",
                   released |-> FALSE, code |-> "NONE", data |-> NULL])
            /\ event_m' = [event_m EXCEPT ![k][s] = Len(events) + 1]
            /\ UNCHANGED <<proc, exitcode>>
    /\ UNCHANGED <<hostWait, ret>>

(***************************************************************************)
(* Kernel::Wait(context_idx).  Entry: an empty slot returns false at once; *)
(* otherwise the host parks in clWaitForEvents.                            *)
(***************************************************************************)
Kernel_WaitEnter_NoNullCheck(k, s) ==
    /\ log' = Append(log, [op |-> "Wait", k |-> k, s |-> s, r |-> FALSE])
    /\ hostWait' = <<k, s>>
    /\ UNCHANGED <<event_m, events, proc, exitcode, ret>>

Kernel_WaitEnter(k, s) ==
    IF event_m[k][s] = NULL
    THEN /\ log' = Append(Append(log,
                     [op |-> "Wait", k |-> k, s |-> s, r |-> FALSE]),
                     [op |-> "WaitRet", k |-> k, s |-> s, r |-> FALSE])
         /\ ret' = FALSE
         /\ hostWait' = <<>>
         /\ UNCHANGED <<event_m, events, proc, exitcode>>
    ELSE /\ log' = Append(log, [op |-> "Wait", k |-> k, s |-> s, r |-> FALSE])
         /\ hostWait' = <<k, s>>
         /\ UNCHANGED <<event_m, events, proc, exitcode, ret>>

Kernel_WaitExit_NoReset ==
    /\ proc = "run"
    /\ hostWait # <<>>
    /\ LET k == hostWait[1]
           s == hostWait[2]
           h == event_m[k][s]
       IN  /\ h # NULL
           /\ Finished(h)
           /\ IF events[h].st = "error"
              THEN /\ ExitWith(CL_OUT_OF_RESOURCES)
                   /\ UNCHANGED <<events, event_m, ret, log>>
              ELSE /\ events' = [events EXCEPT ![h].released = TRUE]
                   /\ ret' = TRUE
                   /\ log' = Append(log, [op |-> "WaitRet", k |-> k,
                                          s |-> s, r |-> TRUE])
                   /\ UNCHANGED <<proc, exitcode, event_m>>
    /\ hostWait' = <<>>
    /\ UNCHANGED <<queue_m, heap, inbuf, outbuf>>

\* clWaitForEvents returns once the event has finished: CL_SUCCESS for a
\* completed event, an error for an abnormally terminated one (or for a
\* handle that is no event).  Then clReleaseEvent, the slot reset, true.
Kernel_WaitExit ==
    /\ proc = "run"
    /\ hostWait # <<>>
    /\ LET k == hostWait[1]
           s == hostWait[2]
           h == event_m[k][s]
       IN  IF h = NULL
           THEN /\ ExitWith(CL_INVALID_EVENT)
                /\ UNCHANGED <<events, event_m, ret, log>>
           ELSE /\ Finished(h)
                /\ IF events[h].st = "error"
                   THEN /\ ExitWith(CL_OUT_OF_RESOURCES)
                        /\ UNCHANGED <<events, event_m, ret, log>>
                   ELSE /\ events' = [events EXCEPT ![h].released = TRUE]
                        /\ event_m' = [event_m EXCEPT ![k][s] = NULL]
                        /\ ret' = TRUE
                        /\ log' = Append(log, [op |-> "WaitRet", k |-> k,
                                               s |-> s, r |-> TRUE])
                        /\ UNCHANGED <<proc, exitcode>>
    /\ hostWait' = <<>>
    /\ UNCHANGED <<queue_m, heap, inbuf, outbuf>>

(***************************************************************************)
(* Kernel::AddCallback(user_data, context_idx): false for an empty slot,   *)
(* else whether clSetEventCallback on the slot's event succeeded.  It      *)
(* returns at once; the callback runs when the event completes.            *)
(***************************************************************************)
Kernel_AddCallback(k, user_data, s, cl_ret) ==
    /\ IF event_m[k][s] = NULL
       THEN /\ log' = Append(log, [op |-> "AddCallback", k |-> k, s |-> s,
                                   r |-> FALSE])
            /\ UNCHANGED <<callbacks, invoked>>
       ELSE LET h == event_m[k][s]
                reg == [h |-> h, user_data |-> user_data]
            IN  /\ log' = Append(log, [op |-> "AddCallback", k |-> k,
                                       s |-> s, r |-> cl_ret = CL_SUCCESS])
                /\ callbacks' = IF cl_ret = CL_SUCCESS
                                THEN Append(callbacks, reg)
                                ELSE callbacks
                /\ invoked' =
                      IF cl_ret = CL_SUCCESS /\ Finished(h)
                      THEN invoked \o Notified(<<reg>>, h, events[h].st)
                      ELSE invoked
    /\ UNCHANGED <<event_m, events, hostWait, ret, proc, exitcode, wrapper>>

\* The code of the last invocation of kernel k on slot s.
LastCode(k, s) == events[MaxOf(HandlesOf(k, s))].code

(***************************************************************************)
(* Device::GetNumDevices and its helpers.  Strings are sequences of        *)
(* characters; std::string compares them by character code.                *)
(***************************************************************************)
Ord(ch) ==
    CASE ch = " " -> 32 [] ch = "(" -> 40 [] ch = "." -> 46
      [] ch = "0" -> 48 [] ch = "1" -> 49 [] ch = "2" -> 50
      [] ch = "5" -> 53 [] ch = "6" -> 54 [] ch = "7" -> 55
      [] ch = "8" -> 56 [] ch = "A" -> 65 [] ch = "I" -> 73
      [] ch = "K" -> 75 [] ch = "M" -> 77 [] ch = "R" -> 82
      [] ch = "T" -> 84 [] ch = "x" -> 120

\* std::string::npos, static_cast<size_t>(-1): as an unsigned value it is
\* larger than every string size.
npos == -1

\* MIN_OCL_VERSION, and sizeof(MIN_OCL_VERSION): its 11 characters and the
\* terminating NUL.
MIN_OCL_VERSION == <<"0", "1", ".", "0", "1", ".", "1", "7", ".", "0", "0">>

SizeofMinOclVersion == Len(MIN_OCL_VERSION) + 1

\* s.find(pat): the first position (from 0) where pat occurs, else npos.
Find(s, pat) ==
    LET P == {i \in 0 .. Len(s) :
                 /\ i + Len(pat) <= Len(s)
                 /\ SubSeq(s, i + 1, i + Len(pat)) = pat}
    IN  IF P = {} THEN npos ELSE MinOf(P)

\* s.substr(pos, n) throws std::out_of_range when pos > s.size() ...
SubstrThrows(s, pos) == pos = npos \/ pos > Len(s)

\* ... and is otherwise the at most n characters from pos on.
Substr(s, pos, n) ==
    SubSeq(s, pos + 1, IF pos + n < Len(s) THEN pos + n ELSE Len(s))

\* a < b, lexicographically by character code.
RECURSIVE StrLess(_, _)
StrLess(a, b) ==
    IF b = <<>> THEN FALSE
    ELSE IF a = <<>> THEN TRUE
    ELSE IF Ord(Head(a)) # Ord(Head(b)) THEN Ord(Head(a)) < Ord(Head(b))
    ELSE StrLess(Tail(a), Tail(b))

\* The checked platform queries, in call order; det.fail names the one the
\* runtime fails, "none" when all succeed.
DetectQueries == <<"clGetPlatformIDs", "versionLength", "version",
                   "nameLength", "name", "clGetDeviceIDs", "clGetDeviceInfo">>

QueryFails(d, q) == d.fail = q

\* CheckOpenCLVersion: "true", "false", or "out_of_range" when substr
\* throws.
CheckOpenCLVersion(d) ==
    IF QueryFails(d, "versionLength") \/ QueryFails(d, "version")
    THEN "false"
    ELSE LET pos == Find(d.version, <<"0", "1", ".">>)
         IN  IF SubstrThrows(d.version, pos) THEN "out_of_range"
             ELSE IF StrLess(Substr(d.version, pos, SizeofMinOclVersion),
                             MIN_OCL_VERSION)
                  THEN "false"
                  ELSE "true"

\* PlatformIsAM57: "true", "false" or "out_of_range".
PlatformIsAM57(d) ==
    IF QueryFails(d, "clGetPlatformIDs") THEN "false"
    ELSE IF CheckOpenCLVersion(d) # "true" THEN CheckOpenCLVersion(d)
    ELSE IF QueryFails(d, "nameLength") \/ QueryFails(d, "name") THEN "false"
    ELSE IF Find(d.name, <<"A", "M", "5", "7">>) = npos THEN "false"
    ELSE "true"

\* clGetDeviceIDs for the device type: the number of devices found (EVEs,
\* or DSP devices), CL_DEVICE_NOT_FOUND when there is none.
NumDevicesFound(p, c) == IF c = "EVE" THEN p.eves ELSE p.dspDevs

\* What a GetNumDevices call gave: the number it returned, or the
\* std::out_of_range that left it; Unknown before the call.
Returned(n) == [st |-> "returned", n |-> n]

OutOfRange == [st |-> "out_of_range", n |-> 0]

Unknown == [st |-> "unknown", n |-> 0]

\* Device::GetNumDevices(device_type) on platform p answering d.
GetNumDevices(d, p, c) ==
    IF PlatformIsAM57(d) = "out_of_range" THEN OutOfRange
    ELSE IF PlatformIsAM57(d) = "false" THEN Returned(0)
    ELSE IF QueryFails(d, "clGetDeviceIDs") THEN Returned(0)
    ELSE IF NumDevicesFound(p, c) = 0 THEN Returned(0)
    ELSE IF c = "DSP"
         THEN IF QueryFails(d, "clGetDeviceInfo") THEN Returned(0)
              ELSE Returned(p.dspUnits)
         ELSE Returned(NumDevicesFound(p, c))

\* Platform version and name strings.
VersionPrefix == <<"T", "I", " ">>

VersionStrings ==
    {VersionPrefix \o MIN_OCL_VERSION,
     VersionPrefix \o MIN_OCL_VERSION \o <<" ", "(", "R">>,
     VersionPrefix \o <<"0", "1", ".", "0", "1", ".", "1", "6", ".", "0", "2",
                        " ", "(">>,
     VersionPrefix \o <<"0", "1", ".", "0", "1", ".", "1", "8", ".", "0", "0">>,
     VersionPrefix \o <<"0", "1", ".", "0", "1">>,
     VersionPrefix \o <<"0", "2", ".", "0", "0", ".", "0", "0", ".", "0", "0">>,
     <<"1", ".", "2">>,
     <<>>}

NameAM57 == <<"T", "I", " ", "A", "M", "5", "7", "x">>

PlatformNames == {NameAM57, <<"T", "I", " ", "K", "2", "x">>, <<>>}

DetectFails == {"none"} \cup {DetectQueries[i] : i \in DOMAIN DetectQueries}

Detections ==
    [fail : DetectFails, version : VersionStrings, name : PlatformNames]

\* A supported platform: every query succeeds, the minimum version, AM57.
SupportedPlatform ==
    [fail |-> "none", version |-> VersionPrefix \o MIN_OCL_VERSION,
     name |-> NameAM57]

\* A detection failure: what the platform answers gives no usable device of
\* type c (a null result of every step that can fail).
DetectionFails(d, p, c) ==
    \/ d.fail # "none" /\ (d.fail = "clGetDeviceInfo" => c = "DSP")
    \/ Find(d.version, <<"0", "1", ".">>) = npos
    \/ /\ Find(d.version, <<"0", "1", ".">>) # npos
       /\ StrLess(Substr(d.version, Find(d.version, <<"0", "1", ".">>),
                         SizeofMinOclVersion), MIN_OCL_VERSION)
    \/ Find(d.name, <<"A", "M", "5", "7">>) = npos
    \/ NumDevicesFound(p, c) = 0

(***************************************************************************)
(* Initial values.                                                         *)
(***************************************************************************)
NoQueues == [i \in DeviceIndexes |-> "null"]

\* The kernels whose construction and destruction SpecBuffers follows.
BufKernels == {<<"DSP", 0, "INIT">>, <<"DSP", 0, "PROCESS">>}

InitNoBuffers ==
    /\ kstate = [k \in BufKernels |-> "none"]
    /\ kargs = [k \in BufKernels |-> <<>>]
    /\ setargs = [k \in BufKernels |-> <<>>]
    /\ buffers_m = [k \in BufKernels |-> <<>>]
    /\ mem = <<>>

\* No pipeline over a chain exists.
InitNoChain ==
    /\ chain = <<>>
    /\ cbuf = <<>>
    /\ cread = <<>>
    /\ ctimes = <<>>
    /\ cpc = "none"
    /\ cstage = 0
    /\ cframes = <<>>
    /\ cout = [out |-> <<>>, time |-> 0]

\* sTIDL_Network_t as far as Initialize touches it: interElementSize,
\* numLayers, and of each layer its layerType and layersGroupId.
LayerTypes == {"TIDL_DataLayer", "TIDL_ConvolutionLayer"}

GroupIds == {1, 2}

Networks ==
    [interElementSize : {2, 4},
     numLayers : 0 .. MaxLayers,
     TIDLLayers : [1 .. MaxLayers ->
                      [layerType : LayerTypes, layersGroupId : GroupIds]]]

NoNetwork ==
    [interElementSize |-> 4, numLayers |-> 0,
     TIDLLayers |-> [i \in 1 .. MaxLayers |->
                       [layerType |-> "TIDL_DataLayer", layersGroupId |-> 1]]]

\* No ExecutorImpl whose network is followed exists.
InitNoNetwork ==
    /\ npc = "none"
    /\ configuration_m = [runFullNet |-> FALSE, netBinFile |-> NoNetwork]
    /\ layers_group_id_m = 1
    /\ net = NoNetwork

InitDevState ==
    /\ InitNoNetwork
    /\ eobj = <<>>
    /\ ewhat = <<>>
    /\ callbacks = <<>>
    /\ invoked = <<>>
    /\ InitNoBuffers
    /\ InitNoChain
    /\ event_m = [k \in AllKernels |-> [s \in Slots |-> NULL]]
    /\ events = <<>>
    /\ hostWait = <<>>
    /\ ret = FALSE
    /\ log = <<>>
    /\ proc = "run"
    /\ exitcode = 0
    /\ heap = [c \in DeviceTypes |-> [allocs |-> 0, writers |-> {}]]
    /\ inbuf = <<>>
    /\ outbuf = <<>>

\* The example program is not running.
\* _BUILD_VER and _BUILD_SHA of a build; the static string starts as
\* STRING(_BUILD_VER).
BuildVers ==
    {<<"1", ".", "0", ".", "0">>, <<"1", ".", "1", ".", "0">>,
     <<"1", ".", "2", ".", "3">>, <<"0", "1", ".", "0", "3", ".", "0", "0">>,
     <<"2", ".", "0", ".", "0">>}

BuildShas == {<<"a", "7", "f">>, <<"0">>, <<"b">>, <<"d", "3">>, <<>>}

Builds == [ver : BuildVers, sha : BuildShas]

InitVersion ==
    /\ build \in Builds
    /\ version = build.ver
    /\ api_versions = <<>>

\* GetAPIVersion is not called.
InitNoVersion ==
    /\ build = [ver |-> <<"1", ".", "0", ".", "0">>, sha |-> <<"a", "7", "f">>]
    /\ version = build.ver
    /\ api_versions = <<>>

InitNoMain ==
    /\ InitNoVersion
    /\ det = SupportedPlatform
    /\ num_devs = [c \in DeviceTypes |-> Unknown]
    /\ sigabrt = "default"
    /\ mpc = "none"
    /\ opts = [num_eves |-> 0, num_dsps |-> 0, num_frames |-> 0]
    /\ buffer_factor = 2
    /\ eos = <<>>
    /\ frame_idx = 0
    /\ reads = <<>>
    /\ emitted = <<>>
    /\ device_time = <<>>

InitNoExecutor ==
    /\ xc = "DSP"
    /\ xids = {}
    /\ xpc = "idle"
    /\ xi = 1
    /\ dcont = "deleted"
    /\ exc = <<>>
    /\ execution_objects_m = [c \in DeviceTypes |-> <<>>]

(***************************************************************************)
(* SpecKernel: one Kernel driven by a caller that makes any sequence of    *)
(* RunAsync and Wait calls on its context slots.                           *)
(***************************************************************************)
NumCalls ==
    Cardinality({i \in DOMAIN log :
                    log[i].op \in {"RunAsync", "Wait", "AddCallback"}})

InitKernelOn(builds) ==
    /\ InitDevState
    /\ wrapper \in builds
    /\ InitNoExecutor
    /\ kut \in {<<"DSP", 0, "PROCESS">>, <<"EVE", 0, "PROCESS">>}
    /\ queue_m = [c \in DeviceTypes |->
                     IF c = kut[1] THEN [NoQueues EXCEPT ![0] = "open"]
                     ELSE NoQueues]
    /\ plat = [eves |-> 1, dspDevs |-> 1, dspUnits |-> 1]
    /\ eops = <<>>
    /\ InitNoMain

CallerReady == proc = "run" /\ hostWait = <<>> /\ NumCalls < MaxCalls

KRunAsync ==
    /\ CallerReady
    /\ \E s \in Slots, cl_ret \in {CL_SUCCESS, CL_OUT_OF_RESOURCES} :
          Kernel_RunAsync(kut, s, cl_ret)
    /\ UNCHANGED <<queue_m, heap, inbuf, outbuf, xvars, eops, kut, svars, nvars, kvars, evars, bvars, cvars, mvars>>

KWait ==
    /\ CallerReady
    /\ \E s \in Slots : Kernel_WaitEnter(kut, s)
    /\ UNCHANGED <<queue_m, heap, inbuf, outbuf, xvars, eops, kut, svars, nvars, kvars, evars, bvars, cvars, mvars>>

\* The user_data pointers a caller passes: none, or some object.
UserDatas == {NULL, 1}

NumCallbacks ==
    Cardinality({i \in DOMAIN log : log[i].op = "AddCallback"})

KAddCallback ==
    /\ CallerReady
    /\ NumCallbacks < MaxCallbacks
    /\ \E user_data \in UserDatas, s \in Slots,
          cl_ret \in {CL_SUCCESS, CL_OUT_OF_RESOURCES} :
          Kernel_AddCallback(kut, user_data, s, cl_ret)
    /\ UNCHANGED <<queue_m, heap, inbuf, outbuf, xvars, eops, kut, svars, nvars, evars,
                   bvars, cvars, mvars>>

HostWaitReturn ==
    /\ Kernel_WaitExit
    /\ UNCHANGED <<xvars, eops, kut, svars, nvars, kvars, evars, bvars, cvars, mvars>>

DeviceStarts ==
    /\ \E h \in Handles : DevStart(h)
    /\ UNCHANGED <<xvars, eops, kut, svars, nvars, kvars, evars, bvars, cvars, mvars>>

DeviceFinishes ==
    /\ \E h \in Handles : \E res \in DevResults(events[h].kernel) :
          DevFinish(h, res)
    /\ UNCHANGED <<xvars, eops, kut, svars, nvars, evars, bvars, cvars, mvars>>

NextKernel ==
    \/ KRunAsync
    \/ KWait
    \/ KAddCallback
    \/ HostWaitReturn
    \/ DeviceStarts
    \/ DeviceFinishes

\* A program that links CallbackWrapper, as the library's users do.
InitKernel == InitKernelOn({TRUE})

SpecKernel == InitKernel /\ [][NextKernel]_vars

\* The same caller in a program with or without CallbackWrapper.
InitCallback == InitKernelOn(BOOLEAN)

SpecCallback == InitCallback /\ [][NextKernel]_vars

\* The kernel's caller with a device that starts and completes every task
\* it was given and a clWaitForEvents that returns once its event has
\* finished; the caller itself may stop calling at any time.
SpecKernelFair ==
    /\ SpecKernel
    /\ WF_vars(DeviceStarts)
    /\ WF_vars(DeviceFinishes)
    /\ WF_vars(HostWaitReturn)

(***************************************************************************)
(* Device::Create: DspDevice / EveDevice construction.  `fail` names the   *)
(* checked cl* call the runtime fails (or "none"); `junk` says whether the *)
(* runtime accepts as a device what the code reads from an array entry it  *)
(* never filled (an id that is no present unit).                           *)
(***************************************************************************)
CtorFails == {"none", "clGetDeviceIDs", "clCreateSubDevices",
              "clCreateContext", "clCreateCommandQueue", "clCreateProgram",
              "clBuildProgram", "clGetDeviceInfo"}

KernelFails == {"none", "clCreateKernel", "clCreateBuffer"}

FailCode(fail) ==
    IF fail = "clBuildProgram" THEN CL_BUILD_PROGRAM_FAILURE
    ELSE CL_OUT_OF_RESOURCES

DevOk(queues) == [kind |-> "ok", code |-> CL_SUCCESS, queues |-> queues]
DevExit(code) == [kind |-> "exit", code |-> code, queues |-> NoQueues]
DevThrow == [kind |-> "throw", code |-> CL_SUCCESS, queues |-> NoQueues]
DevAbort == [kind |-> "abort", code |-> CL_SUCCESS, queues |-> NoQueues]

\* for (auto id : device_ids_m) queue_m[index] = clCreateCommandQueue(...)
OpenQueues_ByPosition(ids) ==
    [i \in DeviceIndexes |-> IF i < Cardinality(ids) THEN "open" ELSE "null"]

OpenQueues(ids) == [i \in DeviceIndexes |-> IF i \in ids THEN "open" ELSE "null"]

\* The units of a device type that are physically present.
Present(c) ==
    IF c = "EVE" THEN 0 .. (plat.eves - 1)
    ELSE IF plat.dspDevs = 1 THEN 0 .. (plat.dspUnits - 1)
    ELSE {}

DspDevice(ids, fail, junk) ==
    IF plat.dspDevs = 0 THEN DevExit(CL_DEVICE_NOT_FOUND)
    ELSE IF fail = "clGetDeviceIDs" THEN DevExit(FailCode(fail))
    ELSE IF plat.dspDevs # 1 THEN DevThrow
    ELSE IF plat.dspUnits = 1
    THEN IF fail \in {"clCreateContext", "clCreateCommandQueue",
                      "clCreateProgram", "clBuildProgram", "clGetDeviceInfo"}
         THEN DevExit(FailCode(fail))
         ELSE DevOk([NoQueues EXCEPT ![0] = "open"])
    ELSE IF fail \in {"clCreateSubDevices", "clCreateContext"}
         THEN DevExit(FailCode(fail))
         ELSE IF (\E id \in ids : id >= NUM_SUB_DEVICES) /\ ~ junk
         THEN DevExit(CL_INVALID_DEVICE)
         ELSE IF fail \in {"clCreateCommandQueue", "clCreateProgram",
                           "clBuildProgram", "clGetDeviceInfo"}
         THEN DevExit(FailCode(fail))
         ELSE DevOk(OpenQueues(ids))

EveDevice(ids, fail, junk) ==
    IF plat.eves = 0 THEN DevExit(CL_DEVICE_NOT_FOUND)
    ELSE IF fail = "clGetDeviceIDs" THEN DevExit(FailCode(fail))
    ELSE IF ~ (plat.eves >= Cardinality(ids)) THEN DevAbort
    ELSE IF fail = "clCreateContext" THEN DevExit(FailCode(fail))
    ELSE IF (\E id \in ids : id >= plat.eves) /\ ~ junk
    THEN DevExit(CL_INVALID_DEVICE)
    ELSE IF fail \in {"clCreateCommandQueue", "clCreateProgram",
                      "clGetDeviceInfo"}
    THEN DevExit(FailCode(fail))
    ELSE DevOk(OpenQueues(ids))

Device_Create(core_type, ids, fail, junk) ==
    IF core_type = "DSP" THEN DspDevice(ids, fail, junk)
    ELSE EveDevice(ids, fail, junk)

(***************************************************************************)
(* ExecutionObject::RunAsync / ExecutionObject::Wait for a call type: the  *)
(* call type's kernel of the execution object, on context slot 0.  Wait    *)
(* throws when the INIT or PROCESS call reported an error code.            *)
(***************************************************************************)
EOKernel(c, u, ct) == <<c, u, ct>>

EO_RunAsync(c, u, ct, cl_ret) == Kernel_RunAsync(EOKernel(c, u, ct), 0, cl_ret)

EO_WaitEnter(c, u, ct) == Kernel_WaitEnter(EOKernel(c, u, ct), 0)

EO_WaitThrows(c, u, ct, s) ==
    /\ ret
    /\ ct \in {"INIT", "PROCESS"}
    /\ LastCode(EOKernel(c, u, ct), s) # "OCL_TIDL_SUCCESS"

(***************************************************************************)
(* Executor::Executor: new ExecutorImpl (Device::Create), then Initialize. *)
(***************************************************************************)
SortedSeq(S) ==
    CHOOSE q \in [1 .. Cardinality(S) -> S] :
        \A i \in DOMAIN q, j \in DOMAIN q : i < j => q[i] < q[j]

EnqueueRets == {CL_SUCCESS, CL_OUT_OF_RESOURCES}

SetupKernel == <<xc, MinOf(xids), "SETUP">>

EOs == execution_objects_m[xc]

\* Exception::Exception(int32_t errorCode, file, func, line_no): what is
\* appended to the location prefix of the message; a code with no text of
\* its own gives its number.
ExceptionText(errorCode) ==
    CASE errorCode = "OCL_TIDL_ERROR" -> ""
      [] errorCode = "OCL_TIDL_ALLOC_FAIL" -> "Allocation failed on device"
      [] errorCode = "OCL_TIDL_MEMREC_ALLOC_FAIL" ->
            "Memrec allocation failed on device"
      [] errorCode = "OCL_TIDL_PROCESS_FAIL" -> "Process call failed on device"
      [] errorCode = "OCL_TIDL_CREATE_PARAMS_MISMATCH" ->
            "TIDL_CreateParams definition inconsistent across hostand device."
      [] OTHER -> errorCode

\* if (setupParams->errorCode != OCL_TIDL_SUCCESS) throw ...
SetupFailed_AllocOnly(errorCode) == errorCode = "OCL_TIDL_ALLOC_FAIL"

SetupFailed(errorCode) == errorCode # "OCL_TIDL_SUCCESS"

\* An exception leaves the constructor: the ExecutorImpl already built is
\* destroyed (Cleanup on the execution objects it holds, then the Device).
Throw(what) ==
    /\ xpc' = "d_cleanup_run"
    /\ xi' = 1
    /\ dcont' = "thrown"
    /\ exc' = <<what>>

\* ExecutorImpl::ExecutorImpl.
X_Ctor ==
    /\ proc = "run"
    /\ xpc = "ctor"
    /\ \E fail \in CtorFails, junk \in BOOLEAN :
          LET d == Device_Create(xc, xids, fail, junk)
          IN  /\ queue_m' = [queue_m EXCEPT ![xc] = d.queues]
              /\ CASE d.kind = "ok" ->
                        /\ xpc' = "init"
                        /\ UNCHANGED <<proc, exitcode>>
                   [] d.kind = "exit" ->
                        /\ ExitWith(d.code)
                        /\ UNCHANGED xpc
                   [] d.kind = "abort" ->
                        /\ Abort
                        /\ UNCHANGED xpc
                   [] d.kind = "throw" ->
                        /\ xpc' = "thrown"
                        /\ UNCHANGED <<proc, exitcode>>
              /\ exc' = IF d.kind = "throw"
                        THEN <<"OpenCL DSP device not found">>
                        ELSE exc
    /\ UNCHANGED <<event_m, events, hostWait, ret, log, heap, inbuf, outbuf,
                   plat, xc, xids, xi, dcont, execution_objects_m, eops, kut, svars, nvars, kvars, evars, bvars, cvars, mvars>>

\* shared_networkparam_heap_m.reset(malloc_ddr<char>(...)).
AllocHeap(c) == [heap EXCEPT ![c].allocs = @ + 1]

\* ExecutorImpl::Initialize up to InitializeNetworkParams' K->RunAsync().
X_InitSetup ==
    /\ proc = "run"
    /\ xpc = "init"
    /\ \E netOk \in BOOLEAN, paramsOk \in BOOLEAN, fail \in KernelFails,
          cl_ret \in EnqueueRets :
          IF ~ netOk \/ ~ paramsOk
          THEN /\ Abort
               /\ UNCHANGED <<event_m, events, log, heap, xpc>>
          ELSE /\ heap' = AllocHeap(xc)
               /\ IF fail # "none"
                  THEN /\ ExitWith(FailCode(fail))
                       /\ UNCHANGED <<event_m, events, log, xpc>>
                  ELSE /\ Kernel_RunAsync(SetupKernel, 0, cl_ret)
                       /\ xpc' = "setup_wait"
    /\ UNCHANGED <<queue_m, hostWait, ret, inbuf, outbuf,
                   plat, xc, xids, xi, dcont, exc, execution_objects_m, eops, kut, svars, nvars, kvars, evars, bvars, cvars, mvars>>

\* K->Wait().
X_SetupWait ==
    /\ proc = "run"
    /\ xpc = "setup_wait"
    /\ Kernel_WaitEnter(SetupKernel, 0)
    /\ xpc' = "setup_waited"
    /\ UNCHANGED <<queue_m, heap, inbuf, outbuf,
                   plat, xc, xids, xi, dcont, exc, execution_objects_m, eops, kut, svars, nvars, kvars, evars, bvars, cvars, mvars>>

NewExecutionObjects_Descending(ids) ==
    [i \in 1 .. Cardinality(ids) |-> SortedSeq(ids)[Cardinality(ids) + 1 - i]]

\* The execution objects Initialize builds: one per id, in the set's order.
NewExecutionObjects(ids) == SortedSeq(ids)

\* param_heap_arg wraps the heap InitializeNetworkParams allocated: building
\* the execution objects allocates no heap.
HeapAfterEOs_Realloc(c) == AllocHeap(c)

HeapAfterEOs(c) == heap

\* The errorCode check after K->Wait(), then back in Initialize the
\* construction of the execution objects.
X_SetupCheck ==
    /\ proc = "run"
    /\ xpc = "setup_waited"
    /\ hostWait = <<>>
    /\ IF SetupFailed(LastCode(SetupKernel, 0))
       THEN /\ Throw(ExceptionText(LastCode(SetupKernel, 0)))
            /\ UNCHANGED <<proc, exitcode, execution_objects_m, heap>>
       ELSE \E fail \in KernelFails :
               IF fail # "none"
               THEN /\ ExitWith(FailCode(fail))
                    /\ UNCHANGED <<xpc, xi, dcont, exc, execution_objects_m, heap>>
               ELSE /\ execution_objects_m' =
                          [execution_objects_m EXCEPT
                              ![xc] = NewExecutionObjects(xids)]
                    /\ heap' = HeapAfterEOs(xc)
                    /\ xpc' = "init_run"
                    /\ xi' = 1
                    /\ UNCHANGED <<proc, exitcode, dcont, exc>>
    /\ UNCHANGED <<event_m, events, queue_m, hostWait, ret, log, inbuf,
                   outbuf, plat, xc, xids, eops, kut, svars, nvars, kvars, evars, bvars, cvars, mvars>>

\* The setup calls issued so far.
SetupCalls == {h \in Handles : events[h].kernel[3] = "SETUP"}

\* shared_createparam, the TIDL_CreateParams blob create_arg wraps: a local
\* up_malloc_ddr of Initialize, allocated at its start and freed by
\* __free_ddr when Initialize returns or an exception unwinds it.
CreateParamsAllocated ==
    xpc \in {"setup_wait", "setup_waited", "init_run", "init_wait",
             "init_waited"}

CreateParamsFreed ==
    xpc \in {"returned", "d_cleanup_run", "d_cleanup_wait", "d_cleanup_waited",
             "deleted", "idle"}
        \/ (xpc = "thrown" /\ SetupCalls # {})

AfterInitRun_WaitEach(i, n) == "init_wait"

\* for (auto &eo : execution_objects_m) eo->RunAsync(INIT);
AfterInitRun(i, n) == IF i = n THEN "init_wait" ELSE "init_run"

X_InitRun ==
    /\ proc = "run"
    /\ xpc = "init_run"
    /\ \E cl_ret \in EnqueueRets : EO_RunAsync(xc, EOs[xi], "INIT", cl_ret)
    /\ xpc' = AfterInitRun(xi, Len(EOs))
    /\ xi' = IF xi = Len(EOs) THEN 1 ELSE xi + 1
    /\ UNCHANGED <<queue_m, heap, inbuf, outbuf,
                   plat, xc, xids, dcont, exc, execution_objects_m, eops, kut, svars, nvars, kvars, evars, bvars, cvars, mvars>>

\* for (auto &eo : execution_objects_m) eo->Wait(INIT);
X_InitWait ==
    /\ proc = "run"
    /\ xpc = "init_wait"
    /\ EO_WaitEnter(xc, EOs[xi], "INIT")
    /\ xpc' = "init_waited"
    /\ UNCHANGED <<queue_m, heap, inbuf, outbuf,
                   plat, xc, xids, xi, dcont, exc, execution_objects_m, eops, kut, svars, nvars, kvars, evars, bvars, cvars, mvars>>

AfterInitWait_FirstOnly(i, n) == "returned"

AfterInitWait(i, n) == IF i = n THEN "returned" ELSE "init_wait"

X_InitWaited ==
    /\ proc = "run"
    /\ xpc = "init_waited"
    /\ hostWait = <<>>
    /\ IF EO_WaitThrows(xc, EOs[xi], "INIT", 0)
       THEN Throw(ExceptionText(LastCode(EOKernel(xc, EOs[xi], "INIT"), 0)))
       ELSE /\ xpc' = AfterInitWait(xi, Len(EOs))
            /\ xi' = IF xi = Len(EOs) THEN 1 ELSE xi + 1
            /\ UNCHANGED <<dcont, exc>>
    /\ UNCHANGED <<devvars, plat, xc, xids, execution_objects_m, eops, kut, svars, nvars, kvars, evars, bvars, cvars, mvars>>

(***************************************************************************)
(* Executor::~Executor: ExecutorImpl::Cleanup, then Device::~Device.       *)
(***************************************************************************)
\* for (auto &eo : execution_objects_m) eo->RunAsync(CLEANUP);
D_CleanupRun ==
    /\ proc = "run"
    /\ xpc = "d_cleanup_run"
    /\ xi <= Len(EOs)
    /\ \E cl_ret \in EnqueueRets : EO_RunAsync(xc, EOs[xi], "CLEANUP", cl_ret)
    /\ xi' = xi + 1
    /\ UNCHANGED <<queue_m, heap, inbuf, outbuf,
                   plat, xc, xids, xpc, dcont, exc, execution_objects_m, eops, kut, svars, nvars, kvars, evars, bvars, cvars, mvars>>

D_CleanupRunDone ==
    /\ proc = "run"
    /\ xpc = "d_cleanup_run"
    /\ xi > Len(EOs)
    /\ xpc' = "d_cleanup_wait"
    /\ xi' = 1
    /\ UNCHANGED <<devvars, plat, xc, xids, dcont, exc, execution_objects_m, eops,
                   kut, svars, nvars, kvars, evars, bvars, cvars, mvars>>

D_CleanupWait_Skips ==
    /\ proc = "run"
    /\ xpc = "d_cleanup_wait"
    /\ xi <= Len(EOs)
    /\ xi' = xi + 1
    /\ UNCHANGED <<devvars, plat, xc, xids, xpc, dcont, exc, execution_objects_m,
                   eops, kut, svars, nvars, kvars, evars, bvars, cvars, mvars>>

\* for (auto &eo : execution_objects_m) eo->Wait(CLEANUP);
D_CleanupWait ==
    /\ proc = "run"
    /\ xpc = "d_cleanup_wait"
    /\ xi <= Len(EOs)
    /\ EO_WaitEnter(xc, EOs[xi], "CLEANUP")
    /\ xpc' = "d_cleanup_waited"
    /\ UNCHANGED <<queue_m, heap, inbuf, outbuf,
                   plat, xc, xids, xi, dcont, exc, execution_objects_m, eops, kut, svars, nvars, kvars, evars, bvars, cvars, mvars>>

D_CleanupWaited ==
    /\ proc = "run"
    /\ xpc = "d_cleanup_waited"
    /\ hostWait = <<>>
    /\ xpc' = "d_cleanup_wait"
    /\ xi' = xi + 1
    /\ UNCHANGED <<devvars, plat, xc, xids, dcont, exc, execution_objects_m, eops,
                   kut, svars, nvars, kvars, evars, bvars, cvars, mvars>>

\* Device::~Device: for i < device_ids_m.size(), clFinish(queue_m[i]) waits
\* for the queue's tasks and clReleaseCommandQueue releases it.
QueueIdle(c, i) ==
    \A h \in Handles : QueueOf(events[h].kernel) = <<c, i>> => Finished(h)

ReleasedQueues(c, n) ==
    [i \in DeviceIndexes |->
        IF i < n /\ queue_m[c][i] = "open" THEN "released" ELSE queue_m[c][i]]

D_Release ==
    /\ proc = "run"
    /\ xpc = "d_cleanup_wait"
    /\ xi > Len(EOs)
    /\ \A i \in DeviceIndexes :
          (i < Cardinality(xids) /\ queue_m[xc][i] = "open") => QueueIdle(xc, i)
    /\ queue_m' = [queue_m EXCEPT ![xc] = ReleasedQueues(xc, Cardinality(xids))]
    /\ execution_objects_m' = [execution_objects_m EXCEPT ![xc] = <<>>]
    /\ xpc' = dcont
    /\ xi' = 1
    /\ UNCHANGED <<event_m, events, hostWait, ret, log, proc, exitcode, heap,
                   inbuf, outbuf, plat, xc, xids, dcont, exc, eops, kut, svars, nvars, kvars, evars, bvars, cvars, mvars>>

(***************************************************************************)
(* SpecExecutor: one Executor constructed for any device type and any set  *)
(* of unit ids, on any platform, and deleted by its caller.                *)
(***************************************************************************)
IdSets == (SUBSET (0 .. MaxEves)) \ {{}}

Platforms ==
    [eves : 0 .. MaxEves, dspDevs : {1}, dspUnits : {1}]
        \cup [eves : {1}, dspDevs : 0 .. 2, dspUnits : 1 .. NUM_SUB_DEVICES]

InitExecutor ==
    /\ InitDevState
    /\ wrapper = TRUE
    /\ queue_m = [c \in DeviceTypes |-> NoQueues]
    /\ plat \in Platforms
    /\ xc \in DeviceTypes
    /\ xids \in IdSets
    /\ xpc = "ctor"
    /\ xi = 1
    /\ dcont = "deleted"
    /\ exc = <<>>
    /\ execution_objects_m = [c \in DeviceTypes |-> <<>>]
    /\ eops = <<>>
    /\ kut = <<"DSP", 0, "PROCESS">>
    /\ InitNoMain

\* delete executor.
X_Delete ==
    /\ proc = "run"
    /\ xpc = "returned"
    /\ xpc' = "d_cleanup_run"
    /\ xi' = 1
    /\ dcont' = "deleted"
    /\ exc' = exc
    /\ UNCHANGED <<devvars, plat, xc, xids, execution_objects_m, eops, kut, svars, nvars, kvars, evars, bvars, cvars, mvars>>

NextExecutor ==
    \/ X_Ctor
    \/ X_InitSetup
    \/ X_SetupWait
    \/ X_SetupCheck
    \/ X_InitRun
    \/ X_InitWait
    \/ X_InitWaited
    \/ X_Delete
    \/ D_CleanupRun
    \/ D_CleanupRunDone
    \/ D_CleanupWait
    \/ D_CleanupWaited
    \/ D_Release
    \/ HostWaitReturn
    \/ DeviceStarts
    \/ DeviceFinishes

SpecExecutor == InitExecutor /\ [][NextExecutor]_vars

(***************************************************************************)
(* SpecDetect: Device::GetNumDevices called for each device type on any    *)
(* platform.                                                               *)
(***************************************************************************)
InitDetect ==
    /\ InitDevState
    /\ wrapper = TRUE
    /\ InitNoVersion
    /\ InitNoExecutor
    /\ queue_m = [c \in DeviceTypes |-> NoQueues]
    /\ plat \in Platforms
    /\ eops = <<>>
    /\ kut = <<"DSP", 0, "PROCESS">>
    /\ det \in Detections
    /\ num_devs = [c \in DeviceTypes |-> Unknown]
    /\ sigabrt = "default"
    /\ mpc = "none"
    /\ opts = [num_eves |-> 0, num_dsps |-> 0, num_frames |-> 0]
    /\ buffer_factor = 2
    /\ eos = <<>>
    /\ frame_idx = 0
    /\ reads = <<>>
    /\ emitted = <<>>
    /\ device_time = <<>>

Executor_GetNumDevices ==
    /\ \E c \in DeviceTypes :
          /\ num_devs[c] = Unknown
          /\ num_devs' = [num_devs EXCEPT ![c] = GetNumDevices(det, plat, c)]
    /\ UNCHANGED <<devvars, xvars, eops, kut, svars, nvars, kvars, evars, bvars, cvars, det, sigabrt, mpc, opts,
                   buffer_factor, eos, frame_idx, reads, emitted, device_time>>

NextDetect == Executor_GetNumDevices

SpecDetect == InitDetect /\ [][NextDetect]_vars

(***************************************************************************)
(* ExecutionObjectPipeline over one execution object: StartAsync and Wait  *)
(* are the PROCESS call of that execution object on the pipeline's context *)
(* slot.                                                                   *)
(***************************************************************************)
EOP_Kernel(e) == EOKernel(eops[e].eo[1], eops[e].eo[2], "PROCESS")

EOP_ProcessFrameStartAsync(e, cl_ret) ==
    Kernel_RunAsync(EOP_Kernel(e), eops[e].ctx, cl_ret)

EOP_ProcessFrameWait_Skipped(e) ==
    /\ ret' = FALSE
    /\ hostWait' = <<>>
    /\ UNCHANGED <<log, event_m, events, proc, exitcode>>

EOP_ProcessFrameWait_OtherSlot(e) ==
    Kernel_WaitEnter(EOP_Kernel(e), (eops[e].ctx + 1) % NUM_CONTEXTS)

EOP_ProcessFrameWait(e) == Kernel_WaitEnter(EOP_Kernel(e), eops[e].ctx)

EOP_WaitThrows(e) ==
    EO_WaitThrows(eops[e].eo[1], eops[e].eo[2], "PROCESS", eops[e].ctx)

(***************************************************************************)
(* The example program: main and RunConfiguration.                         *)
(***************************************************************************)
\* An input or output buffer nothing was put in yet.
NoFrame == -1

BufferFactors == {1, 2}

\* The platforms the example is run on.
ExampleDetections ==
    {SupportedPlatform,
     [SupportedPlatform EXCEPT !.name = <<"T", "I", " ", "K", "2", "x">>],
     [SupportedPlatform EXCEPT !.version = <<"1", ".", "2">>]}

InitExample ==
    /\ InitDevState
    /\ wrapper = TRUE
    /\ InitNoVersion
    /\ InitNoExecutor
    /\ queue_m = [c \in DeviceTypes |-> NoQueues]
    /\ plat \in Platforms
    /\ eops = <<>>
    /\ kut = <<"DSP", 0, "PROCESS">>
    /\ det \in ExampleDetections
    /\ num_devs = [c \in DeviceTypes |-> Unknown]
    /\ sigabrt = "default"
    /\ mpc = "main"
    /\ opts = [num_eves |-> 0, num_dsps |-> 0, num_frames |-> 0]
    /\ buffer_factor \in BufferFactors
    /\ eos = <<>>
    /\ frame_idx = 0
    /\ reads = <<>>
    /\ emitted = <<>>
    /\ device_time = <<>>

MainExit_AlwaysSuccess(code, where) ==
    /\ proc' = "exit"
    /\ exitcode' = ExitStatus(EXIT_SUCCESS)
    /\ mpc' = where

\* main returns code, or exit(code) is called.
MainExit(code, where) ==
    /\ proc' = "exit"
    /\ exitcode' = ExitStatus(code)
    /\ mpc' = where

\* signal(SIGABRT, exit).
M_Signal ==
    /\ proc = "run"
    /\ mpc = "main"
    /\ sigabrt' = "exit"
    /\ mpc' = "detect"
    /\ UNCHANGED <<devvars, xvars, eops, kut, svars, nvars, kvars, evars, bvars, cvars, det, num_devs, opts,
                   buffer_factor, eos, frame_idx, reads, emitted, device_time>>

\* The two GetNumDevices calls; without devices main returns EXIT_SUCCESS.
\* An exception leaving GetNumDevices is caught by nobody: terminate.
M_Detect ==
    /\ proc = "run"
    /\ mpc = "detect"
    /\ LET ne == GetNumDevices(det, plat, "EVE")
           nd == GetNumDevices(det, plat, "DSP")
       IN  IF ne = OutOfRange \/ nd = OutOfRange
           THEN /\ Abort
                /\ UNCHANGED <<num_devs, mpc>>
           ELSE /\ num_devs' = [c \in DeviceTypes |->
                                   IF c = "EVE" THEN ne ELSE nd]
                /\ IF ne.n = 0 /\ nd.n = 0
                   THEN MainExit(EXIT_SUCCESS, "ret_nodevice")
                   ELSE /\ mpc' = "args"
                        /\ UNCHANGED <<proc, exitcode>>
    /\ UNCHANGED <<event_m, events, queue_m, hostWait, ret, log, heap, inbuf,
                   outbuf, xvars, eops, kut, svars, nvars, kvars, evars, bvars, cvars, det, sigabrt, opts,
                   buffer_factor, eos, frame_idx, reads, emitted, device_time>>

\* ProcessArgs with whatever the command line asks for, the assert on the
\* device counts, and the default frame count.
M_Args ==
    /\ proc = "run"
    /\ mpc = "args"
    /\ \E ok \in BOOLEAN, ne \in 0 .. MaxEves, nd \in 0 .. NUM_SUB_DEVICES,
          nf \in 0 .. MaxFrames :
          IF ~ ok
          THEN /\ MainExit(EXIT_SUCCESS, "ret_args")
               /\ UNCHANGED opts
          ELSE IF ~ (nd # 0 \/ ne # 0)
          THEN /\ Abort
               /\ UNCHANGED <<opts, mpc>>
          ELSE /\ opts' = [num_eves |-> ne, num_dsps |-> nd,
                           num_frames |-> IF nf = 0 THEN 1 ELSE nf]
               /\ mpc' = "config"
               /\ UNCHANGED <<proc, exitcode>>
    /\ UNCHANGED <<event_m, events, queue_m, hostWait, ret, log, heap, inbuf,
                   outbuf, xvars, eops, kut, svars, nvars, kvars, evars, bvars, cvars, det, num_devs, sigabrt,
                   buffer_factor, eos, frame_idx, reads, emitted, device_time>>

\* RunConfiguration up to the try block: a configuration file that cannot
\* be read, or a video setup that fails, returns false, and main returns
\* EXIT_FAILURE.
M_Config ==
    /\ proc = "run"
    /\ mpc = "config"
    /\ \E r \in {"ok", "config", "video"} :
          IF r = "ok"
          THEN /\ mpc' = "create_eve"
               /\ UNCHANGED <<proc, exitcode>>
          ELSE MainExit(EXIT_FAILURE, IF r = "config" THEN "ret_config"
                                      ELSE "ret_video")
    /\ UNCHANGED <<event_m, events, queue_m, hostWait, ret, log, heap, inbuf,
                   outbuf, xvars, eops, kut, svars, nvars, kvars, evars, bvars, cvars, det, num_devs, sigabrt, opts,
                   buffer_factor, eos, frame_idx, reads, emitted, device_time>>

NumOf(c) == IF c = "EVE" THEN opts.num_eves ELSE opts.num_dsps

\* CreateExecutor(dt, num, c): nullptr for num = 0, else new Executor over
\* the ids 0 .. num-1.
M_CreateExecutor ==
    /\ proc = "run"
    /\ mpc \in {"create_eve", "create_dsp"}
    /\ LET c == IF mpc = "create_eve" THEN "EVE" ELSE "DSP"
       IN  IF NumOf(c) = 0
           THEN /\ mpc' = IF c = "EVE" THEN "create_dsp" ELSE "eops"
                /\ UNCHANGED <<xc, xids, xpc, xi, dcont, exc>>
           ELSE /\ xc' = c
                /\ xids' = 0 .. (NumOf(c) - 1)
                /\ xpc' = "ctor"
                /\ xi' = 1
                /\ dcont' = "deleted"
                /\ exc' = exc
                /\ mpc' = IF c = "EVE" THEN "new_eve" ELSE "new_dsp"
    /\ UNCHANGED <<devvars, plat, execution_objects_m, eops, kut, svars, nvars, kvars, evars, bvars, cvars, det,
                   num_devs, sigabrt, opts, buffer_factor, eos, frame_idx,
                   reads, emitted, device_time>>

\* new Executor returned.
M_Created ==
    /\ proc = "run"
    /\ mpc \in {"new_eve", "new_dsp"}
    /\ xpc = "returned"
    /\ xpc' = "idle"
    /\ mpc' = IF mpc = "new_eve" THEN "create_dsp" ELSE "eops"
    /\ UNCHANGED <<devvars, plat, xc, xids, xi, dcont, exc, execution_objects_m,
                   eops, kut, svars, nvars, kvars, evars, bvars, cvars, det, num_devs, sigabrt, opts, buffer_factor,
                   eos, frame_idx, reads, emitted, device_time>>

\* catch (tidl::Exception &e): status = false, and main returns
\* EXIT_FAILURE.
M_Caught ==
    /\ proc = "run"
    /\ mpc \in {"new_eve", "new_dsp"}
    /\ xpc = "thrown"
    /\ MainExit(EXIT_FAILURE, "ret_exception")
    /\ UNCHANGED <<event_m, events, queue_m, hostWait, ret, log, heap, inbuf,
                   outbuf, xvars, eops, kut, svars, nvars, kvars, evars, bvars, cvars, det, num_devs, sigabrt, opts,
                   buffer_factor, eos, frame_idx, reads, emitted, device_time>>

\* eos: the execution objects of e_eve, then those of e_dsp.
EosOf(c) ==
    [i \in 1 .. NumOf(c) |-> <<c, execution_objects_m[c][i]>>]

\* eops: buffer_factor rounds of one pipeline per execution object.
EopsOver_Twice(es, bf) ==
    [n \in 1 .. (2 * Len(es)) |->
        [eo |-> es[((n - 1) % Len(es)) + 1], ctx |-> (n - 1) \div Len(es)]]

EopsOver(es, bf) ==
    [n \in 1 .. (bf * Len(es)) |->
        [eo |-> es[((n - 1) % Len(es)) + 1], ctx |-> (n - 1) \div Len(es)]]

\* The execution objects, the pipelines, AllocateMemory.
M_SetupEops ==
    /\ proc = "run"
    /\ mpc = "eops"
    /\ eos' = EosOf("EVE") \o EosOf("DSP")
    /\ eops' = EopsOver(eos', buffer_factor)
    /\ inbuf' = [e \in DOMAIN eops' |-> NoFrame]
    /\ outbuf' = [e \in DOMAIN eops' |-> NoFrame]
    /\ frame_idx' = 0
    /\ mpc' = "loop_wait"
    /\ UNCHANGED <<event_m, events, queue_m, hostWait, ret, log, proc,
                   exitcode, heap, xvars, kut, svars, nvars, kvars, evars, bvars, cvars, det, num_devs, sigabrt, opts,
                   buffer_factor, reads, emitted, device_time>>

\* eops[frame_idx % num_eops].
CurrentEop_First == (0 % Len(eops)) + 1

CurrentEop == (frame_idx % Len(eops)) + 1

TimedEo_First == eos[(0 % Len(eos)) + 1]

\* eos[frame_idx % num_eos], whose GetProcessTimeInMilliSeconds() is added
\* to device_time.
TimedEo == eos[(frame_idx % Len(eos)) + 1]

LoopBound_NoFlush == opts.num_frames

LoopBound_OneFlush == opts.num_frames + 1

LoopBound == opts.num_frames + Len(eops)

\* eop->ProcessFrameWait() is entered.
L_Wait ==
    /\ proc = "run"
    /\ mpc = "loop_wait"
    /\ frame_idx < LoopBound
    /\ EOP_ProcessFrameWait(CurrentEop)
    /\ mpc' = "loop_waited"
    /\ UNCHANGED <<queue_m, heap, inbuf, outbuf, xvars, eops, kut, svars, nvars, kvars, evars, bvars, cvars, det,
                   num_devs, sigabrt, opts, buffer_factor, eos, frame_idx,
                   reads, emitted, device_time>>

\* ProcessFrameWait has returned or thrown: WriteFrameOutput on true, the
\* catch block on an exception.
L_Waited ==
    /\ proc = "run"
    /\ mpc = "loop_waited"
    /\ hostWait = <<>>
    /\ IF EOP_WaitThrows(CurrentEop)
       THEN /\ MainExit(EXIT_FAILURE, "ret_exception")
            /\ UNCHANGED <<emitted, device_time>>
       ELSE /\ device_time' = IF ret THEN Append(device_time, TimedEo)
                              ELSE device_time
            /\ emitted' = IF ret THEN Append(emitted, outbuf[CurrentEop])
                          ELSE emitted
            /\ mpc' = "loop_read"
            /\ UNCHANGED <<proc, exitcode>>
    /\ UNCHANGED <<event_m, events, queue_m, hostWait, ret, log, heap, inbuf,
                   outbuf, xvars, eops, kut, svars, nvars, kvars, evars, bvars, cvars, det, num_devs, sigabrt, opts,
                   buffer_factor, eos, frame_idx, reads>>

\* ReadFrame: false beyond num_frames; else the frame index is set and the
\* frame read into the pipeline's input buffer, which may fail.
L_Read ==
    /\ proc = "run"
    /\ mpc = "loop_read"
    /\ IF frame_idx >= opts.num_frames
       THEN /\ frame_idx' = frame_idx + 1
            /\ mpc' = "loop_wait"
            /\ UNCHANGED <<inbuf, reads>>
       ELSE \E ok \in BOOLEAN :
               /\ inbuf' = [inbuf EXCEPT ![CurrentEop] =
                               IF ok THEN frame_idx ELSE NoFrame]
               /\ reads' = Append(reads, ok)
               /\ IF ok
                  THEN /\ mpc' = "loop_start"
                       /\ UNCHANGED frame_idx
                  ELSE /\ mpc' = "loop_wait"
                       /\ frame_idx' = frame_idx + 1
    /\ UNCHANGED <<event_m, events, queue_m, hostWait, ret, log, proc,
                   exitcode, heap, outbuf, xvars, eops, kut, svars, nvars, kvars, evars, bvars, cvars, det, num_devs,
                   sigabrt, opts, buffer_factor, eos, emitted, device_time>>

\* eop->ProcessFrameStartAsync(), and the loop's increment.
L_Start ==
    /\ proc = "run"
    /\ mpc = "loop_start"
    /\ \E cl_ret \in EnqueueRets :
          EOP_ProcessFrameStartAsync(CurrentEop, cl_ret)
    /\ frame_idx' = frame_idx + 1
    /\ mpc' = "loop_wait"
    /\ UNCHANGED <<queue_m, heap, inbuf, outbuf, xvars, eops, kut, svars, nvars, kvars, evars, bvars, cvars, det,
                   num_devs, sigabrt, opts, buffer_factor, eos, reads,
                   emitted, device_time>>

\* The loop is over: FreeMemory, and the pipelines are deleted.
L_Exit ==
    /\ proc = "run"
    /\ mpc = "loop_wait"
    /\ ~ (frame_idx < LoopBound)
    /\ mpc' = "delete_eve"
    /\ eops' = <<>>
    /\ inbuf' = <<>>
    /\ outbuf' = <<>>
    /\ UNCHANGED <<event_m, events, queue_m, hostWait, ret, log, proc,
                   exitcode, heap, xvars, kut, svars, nvars, kvars, evars, bvars, cvars, det, num_devs, sigabrt, opts,
                   buffer_factor, eos, frame_idx, reads, emitted, device_time>>

\* delete e_eve; delete e_dsp; (nothing for a nullptr).
M_DeleteExecutor ==
    /\ proc = "run"
    /\ mpc \in {"delete_eve", "delete_dsp"}
    /\ LET c == IF mpc = "delete_eve" THEN "EVE" ELSE "DSP"
       IN  IF NumOf(c) = 0
           THEN /\ mpc' = IF c = "EVE" THEN "delete_dsp" ELSE "passed"
                /\ UNCHANGED <<xc, xids, xpc, xi, dcont, exc>>
           ELSE /\ xc' = c
                /\ xids' = 0 .. (NumOf(c) - 1)
                /\ xpc' = "d_cleanup_run"
                /\ xi' = 1
                /\ dcont' = "deleted"
                /\ exc' = exc
                /\ mpc' = IF c = "EVE" THEN "deleting_eve" ELSE "deleting_dsp"
    /\ UNCHANGED <<devvars, plat, execution_objects_m, eops, kut, svars, nvars, kvars, evars, bvars, cvars, det,
                   num_devs, sigabrt, opts, buffer_factor, eos, frame_idx,
                   reads, emitted, device_time>>

M_Deleted ==
    /\ proc = "run"
    /\ mpc \in {"deleting_eve", "deleting_dsp"}
    /\ xpc = "deleted"
    /\ xpc' = "idle"
    /\ mpc' = IF mpc = "deleting_eve" THEN "delete_dsp" ELSE "passed"
    /\ UNCHANGED <<devvars, plat, xc, xids, xi, dcont, exc, execution_objects_m,
                   eops, kut, svars, nvars, kvars, evars, bvars, cvars, det, num_devs, sigabrt, opts, buffer_factor,
                   eos, frame_idx, reads, emitted, device_time>>

\* RunConfiguration returned true: main returns EXIT_SUCCESS.
M_Passed ==
    /\ proc = "run"
    /\ mpc = "passed"
    /\ MainExit(EXIT_SUCCESS, "ret_passed")
    /\ UNCHANGED <<event_m, events, queue_m, hostWait, ret, log, heap, inbuf,
                   outbuf, xvars, eops, kut, svars, nvars, kvars, evars, bvars, cvars, det, num_devs, sigabrt, opts,
                   buffer_factor, eos, frame_idx, reads, emitted, device_time>>

NextExample ==
    \/ M_Signal
    \/ M_Detect
    \/ M_Args
    \/ M_Config
    \/ M_CreateExecutor
    \/ M_Created
    \/ M_Caught
    \/ M_SetupEops
    \/ L_Wait
    \/ L_Waited
    \/ L_Read
    \/ L_Start
    \/ L_Exit
    \/ M_DeleteExecutor
    \/ M_Deleted
    \/ M_Passed
    \/ X_Ctor
    \/ X_InitSetup
    \/ X_SetupWait
    \/ X_SetupCheck
    \/ X_InitRun
    \/ X_InitWait
    \/ X_InitWaited
    \/ D_CleanupRun
    \/ D_CleanupRunDone
    \/ D_CleanupWait
    \/ D_CleanupWaited
    \/ D_Release
    \/ HostWaitReturn
    \/ DeviceStarts
    \/ DeviceFinishes

SpecExample == InitExample /\ [][NextExample]_vars

\* The steps of the host thread of the example.
ExampleHost ==
    \/ M_Signal \/ M_Detect \/ M_Args \/ M_Config \/ M_CreateExecutor
    \/ M_Created \/ M_Caught \/ M_SetupEops \/ L_Wait \/ L_Waited \/ L_Read
    \/ L_Start \/ L_Exit \/ M_DeleteExecutor \/ M_Deleted \/ M_Passed
    \/ X_Ctor \/ X_InitSetup \/ X_SetupWait \/ X_SetupCheck \/ X_InitRun
    \/ X_InitWait \/ X_InitWaited \/ D_CleanupRun \/ D_CleanupRunDone
    \/ D_CleanupWait \/ D_CleanupWaited \/ D_Release

\* The example with a host thread that keeps running, devices that start
\* and complete every call they were given, and a clWaitForEvents that
\* returns once the event it waits for is complete.
SpecExampleFair ==
    /\ SpecExample
    /\ WF_vars(ExampleHost)
    /\ WF_vars(DeviceStarts)
    /\ WF_vars(DeviceFinishes)
    /\ WF_vars(HostWaitReturn)

(***************************************************************************)
(* SpecVersion: Executor::GetAPIVersion called any number of times in one  *)
(* process.                                                                *)
(***************************************************************************)
InitApi ==
    /\ InitDevState
    /\ wrapper = TRUE
    /\ InitNoExecutor
    /\ queue_m = [c \in DeviceTypes |-> NoQueues]
    /\ plat = [eves |-> 1, dspDevs |-> 1, dspUnits |-> 1]
    /\ eops = <<>>
    /\ kut = <<"DSP", 0, "PROCESS">>
    /\ InitVersion
    /\ det = SupportedPlatform
    /\ num_devs = [c \in DeviceTypes |-> Unknown]
    /\ sigabrt = "default"
    /\ mpc = "none"
    /\ opts = [num_eves |-> 0, num_dsps |-> 0, num_frames |-> 0]
    /\ buffer_factor = 2
    /\ eos = <<>>
    /\ frame_idx = 0
    /\ reads = <<>>
    /\ emitted = <<>>
    /\ device_time = <<>>

\* version += "."; version += STRING(_BUILD_SHA); return version;
Executor_GetAPIVersion ==
    /\ Len(api_versions) < MaxApiCalls
    /\ version' = version \o <<".">> \o build.sha
    /\ api_versions' = Append(api_versions, version')
    /\ UNCHANGED <<devvars, xvars, eops, kut, mvars, build, bvars, cvars,
                   nvars, kvars, evars>>

NextApi == Executor_GetAPIVersion

SpecVersion == InitApi /\ [][NextApi]_vars

(***************************************************************************)
(* SpecException: tidl::Exception objects built by either constructor and  *)
(* asked for what().  A std::string is the sequence of the pieces          *)
(* appended to it; a number is appended as its decimal digits.             *)
(***************************************************************************)
DigitChar(d) ==
    CASE d = 0 -> "0" [] d = 1 -> "1" [] d = 2 -> "2" [] d = 3 -> "3"
      [] d = 4 -> "4" [] d = 5 -> "5" [] d = 6 -> "6" [] d = 7 -> "7"
      [] d = 8 -> "8" [] d = 9 -> "9"

\* std::to_string of an integer.
RECURSIVE Digits(_)
Digits(n) ==
    IF n < 10 THEN <<DigitChar(n)>>
    ELSE Append(Digits(n \div 10), DigitChar(n % 10))

to_string(n) == IF n < 0 THEN <<"-">> \o Digits(0 - n) ELSE Digits(n)

\* message_m += s.
Piece(s) == IF s = "" THEN <<>> ELSE <<s>>

\* "TIDL Error: [" file ", " func ", " line_no "]: ".
MessagePrefix(file, func, line_no) ==
    <<"TIDL Error: [">> \o Piece(file) \o <<", ">> \o Piece(func)
        \o <<", ">> \o to_string(line_no) \o <<"]: ">>

\* Exception::Exception(const std::string& error, file, func, line_no).
Exception_FromError(error, file, func, line_no) ==
    MessagePrefix(file, func, line_no) \o Piece(error)

\* The error codes with a text of their own.  Their values are defined
\* outside these sources: a code is given by its name when it is one of
\* them and by its value otherwise.
NamedCodes ==
    {"OCL_TIDL_ERROR", "OCL_TIDL_ALLOC_FAIL", "OCL_TIDL_MEMREC_ALLOC_FAIL",
     "OCL_TIDL_PROCESS_FAIL", "OCL_TIDL_CREATE_PARAMS_MISMATCH"}

CodeText_Numeric(errorCode) == to_string(errorCode.value)

CodeText(errorCode) ==
    IF errorCode.name \in NamedCodes THEN Piece(ExceptionText(errorCode.name))
    ELSE to_string(errorCode.value)

\* Exception::Exception(int32_t errorCode, file, func, line_no).
Exception_FromCode(errorCode, file, func, line_no) ==
    MessagePrefix(file, func, line_no) \o CodeText(errorCode)

\* The arguments the constructors are given.
ErrorStrings == {"OpenCL DSP device not found", "Number of layers exceeds", ""}

ErrorCodes ==
    [name : NamedCodes, value : {0}]
        \cup [name : {""}, value : {0 - 13, 0, 6, 25, 140}]

Files == {"ocl_device.cpp", "executor.cpp"}

Funcs == {"DspDevice", "InitializeNetworkParams"}

LineNos == {0, 7, 72, 173}

E_FromError ==
    /\ proc = "run"
    /\ eobj = <<>>
    /\ \E error \in ErrorStrings, file \in Files, func \in Funcs,
          line_no \in LineNos :
          eobj' = <<[ctor |-> "error", error |-> error,
                     errorCode |-> [name |-> "", value |-> 0],
                     file |-> file, func |-> func, line_no |-> line_no,
                     message_m |->
                        Exception_FromError(error, file, func, line_no)]>>
    /\ UNCHANGED <<devvars, xvars, eops, kut, svars, nvars, kvars, bvars,
                   cvars, mvars, ewhat>>

E_FromCode ==
    /\ proc = "run"
    /\ eobj = <<>>
    /\ \E errorCode \in ErrorCodes, file \in Files, func \in Funcs,
          line_no \in LineNos :
          eobj' = <<[ctor |-> "code", error |-> "", errorCode |-> errorCode,
                     file |-> file, func |-> func, line_no |-> line_no,
                     message_m |->
                        Exception_FromCode(errorCode, file, func, line_no)]>>
    /\ UNCHANGED <<devvars, xvars, eops, kut, svars, nvars, kvars, bvars,
                   cvars, mvars, ewhat>>

\* Exception::what(): message_m.c_str().
E_What ==
    /\ proc = "run"
    /\ eobj # <<>>
    /\ ewhat = <<>>
    /\ ewhat' = <<eobj[1].message_m>>
    /\ UNCHANGED <<devvars, xvars, eops, kut, svars, nvars, kvars, bvars,
                   cvars, mvars, eobj>>

NextException ==
    \/ E_FromError
    \/ E_FromCode
    \/ E_What

InitException ==
    /\ InitDevState
    /\ wrapper = TRUE
    /\ InitNoExecutor
    /\ queue_m = [c \in DeviceTypes |-> NoQueues]
    /\ plat = [eves |-> 1, dspDevs |-> 1, dspUnits |-> 1]
    /\ eops = <<>>
    /\ kut = <<"DSP", 0, "PROCESS">>
    /\ InitNoMain

SpecException == InitException /\ [][NextException]_vars

(***************************************************************************)
(* SpecNetwork: the network that Initialize reads into the create          *)
(* parameters and prepares before the setup kernel is called.              *)
(***************************************************************************)
\* Executor::Executor / ExecutorImpl::ExecutorImpl: layers_group_id_m is the
\* caller's layers_group_id; Initialize first copies the configuration.
N_Executor ==
    /\ proc = "run"
    /\ npc = "none"
    /\ \E file \in Networks, runFullNet \in BOOLEAN, layers_group_id \in GroupIds :
          /\ layers_group_id_m' = layers_group_id
          /\ configuration_m' = [runFullNet |-> runFullNet, netBinFile |-> file]
    /\ npc' = "init"
    /\ UNCHANGED <<devvars, xvars, eops, kut, svars, bvars, cvars, mvars, net,
                   kvars, evars>>

ForceFullNet_AllLayers(n, gid) ==
    [n EXCEPT !.TIDLLayers =
        [i \in 1 .. MaxLayers |->
            IF i <= n.numLayers
            THEN [n.TIDLLayers[i] EXCEPT !.layersGroupId = gid]
            ELSE n.TIDLLayers[i]]]

\* for (i < net->numLayers) if (layerType != TIDL_DataLayer)
\*     layersGroupId = layers_group_id_m;
ForceFullNet(n, gid) ==
    [n EXCEPT !.TIDLLayers =
        [i \in 1 .. MaxLayers |->
            IF i <= n.numLayers /\ n.TIDLLayers[i].layerType # "TIDL_DataLayer"
            THEN [n.TIDLLayers[i] EXCEPT !.layersGroupId = gid]
            ELSE n.TIDLLayers[i]]]

\* ExecutorImpl::Initialize up to the call of InitializeNetworkParams:
\* ReadBinary into net (assert on failure), interElementSize = 4, and the
\* full-network override when configuration.runFullNet is set.
N_Initialize ==
    /\ proc = "run"
    /\ npc = "init"
    /\ \E status \in BOOLEAN :
          IF ~ status
          THEN /\ Abort
               /\ UNCHANGED <<npc, net>>
          ELSE /\ net' =
                    LET read == [configuration_m.netBinFile
                                    EXCEPT !.interElementSize = 4]
                    IN  IF configuration_m.runFullNet
                        THEN ForceFullNet(read, layers_group_id_m)
                        ELSE read
               /\ npc' = "prepared"
               /\ UNCHANGED <<proc, exitcode>>
    /\ UNCHANGED <<event_m, events, queue_m, hostWait, ret, log, heap, inbuf,
                   outbuf, xvars, eops, kut, svars, bvars, cvars, mvars,
                   configuration_m, layers_group_id_m, kvars, evars>>

NextNetwork ==
    \/ N_Executor
    \/ N_Initialize

InitNetwork ==
    /\ InitDevState
    /\ wrapper = TRUE
    /\ InitNoExecutor
    /\ queue_m = [c \in DeviceTypes |-> NoQueues]
    /\ plat = [eves |-> 1, dspDevs |-> 1, dspUnits |-> 1]
    /\ eops = <<>>
    /\ kut = <<"DSP", 0, "PROCESS">>
    /\ InitNoMain

SpecNetwork == InitNetwork /\ [][NextNetwork]_vars

(***************************************************************************)
(* SpecBuffers: Kernels constructed over argument lists and destroyed.     *)
(***************************************************************************)
\* DeviceArgInfo: local or not, its kind, where its host pointer points
\* (nowhere, into the device-visible (CMEM) region, or elsewhere), and its
\* size in bytes.
DeviceArgInfos ==
    {[local |-> TRUE, kind |-> "BUFFER", ptr |-> "null", size |-> 16],
     [local |-> FALSE, kind |-> "BUFFER", ptr |-> "null", size |-> 0],
     [local |-> FALSE, kind |-> "BUFFER", ptr |-> "cmem", size |-> 64],
     [local |-> FALSE, kind |-> "BUFFER", ptr |-> "host", size |-> 32],
     [local |-> FALSE, kind |-> "SCALAR", ptr |-> "host", size |-> 8]}

RECURSIVE SeqsUpTo(_, _)
SeqsUpTo(S, n) ==
    IF n = 0 THEN {<<>>}
    ELSE SeqsUpTo(S, n - 1)
            \cup {Append(q, x) : q \in {r \in SeqsUpTo(S, n - 1) :
                                            Len(r) = n - 1}, x \in S}

KernelArgs == SeqsUpTo(DeviceArgInfos, MaxArgs)

\* Device::CreateBuffer returns nullptr for an argument without host
\* memory, else a buffer that uses the host memory in place when it lies in
\* the device-visible region and a copy of it otherwise.
CreateBufferIsNull(arg) == arg.ptr = "null"

BufferFlag_AlwaysCopy(arg) == {"CL_MEM_READ_WRITE", "CL_MEM_COPY_HOST_PTR"}

BufferFlag(arg) ==
    IF arg.ptr = "cmem" THEN {"CL_MEM_READ_WRITE", "CL_MEM_USE_HOST_PTR"}
    ELSE {"CL_MEM_READ_WRITE", "CL_MEM_COPY_HOST_PTR"}

\* The cl_mem object clCreateBuffer makes for CreateBuffer(arg) called by
\* kernel k.
CreatedBuffer(k, arg) ==
    [owner |-> k, flag |-> BufferFlag(arg), size |-> arg.size, releases |-> 0]

\* The arguments Kernel::Kernel pushes a buffer for: not local, of kind
\* BUFFER, and CreateBuffer returned a buffer.
KeepsBuffer(arg) ==
    /\ ~ arg.local
    /\ arg.kind = "BUFFER"
    /\ ~ CreateBufferIsNull(arg)

BufferArgs(args) == SelectSeq(args, KeepsBuffer)

\* sizeof(cl_mem) on the 32-bit host.
SizeofClMem == 4

NextArgIndex_BoundOnly(arg_index, arg) ==
    IF ~ arg.local /\ arg.kind = "BUFFER" /\ CreateBufferIsNull(arg)
    THEN arg_index
    ELSE arg_index + 1

\* arg_index++ at the end of every iteration of the constructor's loop.
NextArgIndex(arg_index, arg) == arg_index + 1

\* arg_index when the loop reaches the i-th argument.
RECURSIVE ArgIndexAt(_, _)
ArgIndexAt(args, i) ==
    IF i = 1 THEN 0
    ELSE NextArgIndex(ArgIndexAt(args, i - 1), args[i - 1])

\* The clSetKernelArg call of the loop for the i-th argument, when the
\* buffers the constructor creates get the handles after base: a buffer
\* argument passes the cl_mem CreateBuffer returned, a scalar the size
\* and the pointer of the argument, a local argument the size and NULL.
SetKernelArg(args, i, base) ==
    LET arg == args[i]
        idx == ArgIndexAt(args, i)
    IN  IF ~ arg.local
        THEN IF arg.kind = "BUFFER"
             THEN [arg_index |-> idx, arg_size |-> SizeofClMem,
                   arg_value |->
                      [t |-> "cl_mem",
                       v |-> IF CreateBufferIsNull(arg) THEN NULL
                             ELSE base + Len(BufferArgs(SubSeq(args, 1, i)))]]
             ELSE [arg_index |-> idx, arg_size |-> arg.size,
                   arg_value |-> [t |-> "ptr", v |-> i]]
        ELSE [arg_index |-> idx, arg_size |-> arg.size,
              arg_value |-> [t |-> "null", v |-> NULL]]

\* The arguments the loop gets through when the clCreateBuffer for its
\* (made + 1)-th buffer fails: those before the argument of that buffer.
ArgsBefore(args, made) ==
    LET P == {i \in DOMAIN args :
                 /\ KeepsBuffer(args[i])
                 /\ Len(BufferArgs(SubSeq(args, 1, i))) = made + 1}
    IN  IF P = {} THEN Len(args) ELSE MinOf(P) - 1

\* Kernel::Kernel(device, name, args, device_index).  `fail` is 0 when
\* every checked call succeeds, 1 when clCreateKernel fails, j + 1 when the
\* j-th clCreateBuffer fails: errorCheck exits, the buffers created before
\* stay behind.
Kernel_Kernel(k) ==
    /\ proc = "run"
    /\ kstate[k] = "none"
    /\ \E args \in KernelArgs, fail \in 0 .. (MaxArgs + 1) :
          LET nb == Len(BufferArgs(args))
              made == IF fail = 0 THEN nb
                      ELSE IF fail = 1 THEN 0 ELSE fail - 2
              new == [i \in 1 .. made |->
                         CreatedBuffer(k, BufferArgs(args)[i])]
              done == IF fail = 0 THEN Len(args)
                      ELSE IF fail = 1 THEN 0 ELSE ArgsBefore(args, made)
          IN  /\ fail <= nb + 1
              /\ mem' = mem \o new
              /\ setargs' = [setargs EXCEPT ![k] =
                                [i \in 1 .. done |->
                                    SetKernelArg(args, i, Len(mem))]]
              /\ buffers_m' = [buffers_m EXCEPT ![k] =
                                  [i \in 1 .. made |-> Len(mem) + i]]
              /\ kargs' = [kargs EXCEPT ![k] = args]
              /\ IF fail = 0
                 THEN /\ kstate' = [kstate EXCEPT ![k] = "built"]
                      /\ UNCHANGED <<proc, exitcode>>
                 ELSE /\ kstate' = [kstate EXCEPT ![k] = "failed"]
                      /\ ExitWith(CL_OUT_OF_RESOURCES)
    /\ UNCHANGED <<event_m, events, queue_m, hostWait, ret, log, heap, inbuf,
                   outbuf, xvars, eops, kut, svars, nvars, kvars, evars, mvars, cvars>>

\* What Kernel::~Kernel hands to Device::ReleaseBuffer.
ReleasedBy_Twice(k) == buffers_m[k] \o buffers_m[k]

ReleasedBy(k) == buffers_m[k]

\* Kernel::~Kernel: ReleaseBuffer on every handle in buffers_m.
Kernel_Destroy(k) ==
    /\ proc = "run"
    /\ kstate[k] = "built"
    /\ mem' = [h \in DOMAIN mem |->
                  [mem[h] EXCEPT !.releases =
                      @ + Cardinality({i \in DOMAIN ReleasedBy(k) :
                                          ReleasedBy(k)[i] = h})]]
    /\ kstate' = [kstate EXCEPT ![k] = "destroyed"]
    /\ buffers_m' = [buffers_m EXCEPT ![k] = <<>>]
    /\ UNCHANGED <<devvars, xvars, eops, kut, svars, nvars, kvars, evars, mvars, kargs,
                   setargs, cvars>>

KernelConstructed == \E k \in BufKernels : Kernel_Kernel(k)

KernelDestroyed == \E k \in BufKernels : Kernel_Destroy(k)

NextBuffers ==
    \/ KernelConstructed
    \/ KernelDestroyed

InitBuffers ==
    /\ InitDevState
    /\ wrapper = TRUE
    /\ InitNoExecutor
    /\ queue_m = [c \in DeviceTypes |->
                     IF c = "DSP" THEN [NoQueues EXCEPT ![0] = "open"]
                     ELSE NoQueues]
    /\ plat = [eves |-> 1, dspDevs |-> 1, dspUnits |-> 1]
    /\ eops = <<>>
    /\ kut = <<"DSP", 0, "PROCESS">>
    /\ InitNoMain

SpecBuffers == InitBuffers /\ [][NextBuffers]_vars

(***************************************************************************)
(* SpecChain: one ExecutionObjectPipeline over a chain of execution        *)
(* objects.  StartAsync issues the first stage and then, stage by stage,   *)
(* waits for the previous stage and issues the next one; Wait waits for    *)
(* the last stage and exposes the chain's output buffer and the sum of the *)
(* stages' device times.  The output buffer of a stage is the input buffer *)
(* of the next one.  A stage's device call appends its stage number to     *)
(* what it read.                                                           *)
(***************************************************************************)
ChainEOs == {<<"EVE", 0>>, <<"DSP", 0>>, <<"DSP", 1>>}

ChainLayouts ==
    {q \in SeqsUpTo(ChainEOs, MaxStages) :
        /\ q # <<>>
        /\ \A i \in DOMAIN q, j \in DOMAIN q : q[i] = q[j] => i = j}

DeviceTimes == 0 .. MaxCycles

StageKernel(s) == EOKernel(chain[s][1], chain[s][2], "PROCESS")

StageOf(h) ==
    CHOOSE s \in DOMAIN chain : chain[s] = QueueOf(events[h].kernel)

RECURSIVE SumSeq(_)
SumSeq(q) == IF q = <<>> THEN 0 ELSE Head(q) + SumSeq(Tail(q))

InitChain ==
    /\ InitDevState
    /\ wrapper = TRUE
    /\ InitNoExecutor
    /\ queue_m = [c \in DeviceTypes |->
                     [i \in DeviceIndexes |->
                         IF <<c, i>> \in ChainEOs THEN "open" ELSE "null"]]
    /\ plat = [eves |-> 1, dspDevs |-> 1, dspUnits |-> NUM_SUB_DEVICES]
    /\ eops = <<>>
    /\ kut = <<"DSP", 0, "PROCESS">>
    /\ InitNoMain

\* ExecutionObjectPipeline({eo, ...}).
C_Create ==
    /\ proc = "run"
    /\ cpc = "none"
    /\ \E q \in ChainLayouts :
          /\ chain' = q
          /\ cbuf' = [i \in 1 .. (Len(q) + 1) |-> <<>>]
          /\ cread' = [i \in 1 .. Len(q) |-> <<>>]
          /\ ctimes' = [i \in 1 .. Len(q) |-> 0]
    /\ cpc' = "idle"
    /\ UNCHANGED <<devvars, xvars, eops, kut, svars, nvars, kvars, evars, bvars, mvars, cstage,
                   cframes, cout>>

\* After stage s of n was issued: StartAsync returns after the last one,
\* else it waits for stage s.
AfterIssue_NoWait(s, n) == IF s = n THEN "started" ELSE "start_waited"

AfterIssue(s, n) == IF s = n THEN "started" ELSE "start_wait"

\* StartAsync on a frame put into the input buffer: the first stage is
\* issued.
C_StartAsync ==
    /\ proc = "run"
    /\ cpc = "idle"
    /\ Len(cframes) < MaxChainFrames
    /\ cbuf' = [cbuf EXCEPT ![1] = <<Len(cframes)>>]
    /\ cframes' = Append(cframes, Len(cframes))
    /\ \E cl_ret \in EnqueueRets : Kernel_RunAsync(StageKernel(1), 0, cl_ret)
    /\ cstage' = 1
    /\ cpc' = AfterIssue(1, Len(chain))
    /\ UNCHANGED <<queue_m, heap, inbuf, outbuf, xvars, eops, kut, svars, nvars, kvars, evars,
                   bvars, mvars, chain, cread, ctimes, cout>>

\* Inside StartAsync: the wait for the stage issued last.
C_StageWait ==
    /\ proc = "run"
    /\ cpc = "start_wait"
    /\ Kernel_WaitEnter(StageKernel(cstage), 0)
    /\ cpc' = "start_waited"
    /\ UNCHANGED <<queue_m, heap, inbuf, outbuf, xvars, eops, kut, svars, nvars, kvars, evars,
                   bvars, mvars, chain, cbuf, cread, ctimes, cstage, cframes,
                   cout>>

\* Inside StartAsync: the previous stage has completed (or its Wait
\* throws); the next stage is issued.
C_StageNext ==
    /\ proc = "run"
    /\ cpc = "start_waited"
    /\ hostWait = <<>>
    /\ IF EO_WaitThrows(chain[cstage][1], chain[cstage][2], "PROCESS", 0)
       THEN /\ cpc' = "thrown"
            /\ UNCHANGED <<event_m, events, log, proc, exitcode, cstage>>
       ELSE /\ \E cl_ret \in EnqueueRets :
                  Kernel_RunAsync(StageKernel(cstage + 1), 0, cl_ret)
            /\ cstage' = cstage + 1
            /\ cpc' = AfterIssue(cstage + 1, Len(chain))
    /\ UNCHANGED <<queue_m, hostWait, ret, heap, inbuf, outbuf, xvars, eops,
                   kut, svars, nvars, kvars, evars, bvars, mvars, chain, cbuf, cread, ctimes,
                   cframes, cout>>

\* Wait is entered: the wait for the last stage.
C_Wait ==
    /\ proc = "run"
    /\ cpc = "started"
    /\ Kernel_WaitEnter(StageKernel(Len(chain)), 0)
    /\ cpc' = "waiting"
    /\ UNCHANGED <<queue_m, heap, inbuf, outbuf, xvars, eops, kut, svars, nvars, kvars, evars,
                   bvars, mvars, chain, cbuf, cread, ctimes, cstage, cframes,
                   cout>>

\* What Wait exposes.
ExposedOutput_First == cbuf[2]

ExposedOutput == cbuf[Len(chain) + 1]

AggregateTime == SumSeq(ctimes)

\* Wait returns (or throws).
C_Waited ==
    /\ proc = "run"
    /\ cpc = "waiting"
    /\ hostWait = <<>>
    /\ IF EO_WaitThrows(chain[Len(chain)][1], chain[Len(chain)][2],
                        "PROCESS", 0)
       THEN /\ cpc' = "thrown"
            /\ UNCHANGED cout
       ELSE /\ cpc' = "idle"
            /\ cout' = [out |-> ExposedOutput, time |-> AggregateTime]
    /\ UNCHANGED <<devvars, xvars, eops, kut, svars, nvars, kvars, evars, bvars, mvars, chain,
                   cbuf, cread, ctimes, cstage, cframes>>

\* A stage's device call starts: it reads its input buffer.
C_DeviceStarts ==
    /\ \E h \in Handles :
          /\ DevStart(h)
          /\ cread' = [cread EXCEPT ![StageOf(h)] = cbuf[StageOf(h)]]
    /\ UNCHANGED <<xvars, eops, kut, svars, nvars, kvars, evars, bvars, mvars, chain, cbuf,
                   ctimes, cpc, cstage, cframes, cout>>

\* A stage's device call ends: on success it has written its output
\* buffer and taken t of device time.
C_DeviceFinishes ==
    /\ \E h \in Handles : \E res \in DevResults(events[h].kernel),
                             t \in DeviceTimes :
          /\ DevFinish(h, res)
          /\ IF res = "OCL_TIDL_SUCCESS"
             THEN /\ cbuf' = [cbuf EXCEPT ![StageOf(h) + 1] =
                                  Append(cread[StageOf(h)], StageOf(h))]
                  /\ ctimes' = [ctimes EXCEPT ![StageOf(h)] = t]
             ELSE /\ t = 0
                  /\ UNCHANGED <<cbuf, ctimes>>
    /\ UNCHANGED <<xvars, eops, kut, svars, nvars, evars, bvars, mvars, chain, cread,
                   cpc, cstage, cframes, cout>>

NextChain ==
    \/ C_Create
    \/ C_StartAsync
    \/ C_StageWait
    \/ C_StageNext
    \/ C_Wait
    \/ C_Waited
    \/ C_DeviceStarts
    \/ C_DeviceFinishes
    \/ HostWaitReturn

SpecChain == InitChain /\ [][NextChain]_vars

(***************************************************************************)
(* C1                                                                      *)
(***************************************************************************)
\* A RunAsync(s) has been issued on kernel k and no successful Wait(s) has
\* released its event since.
Outstanding(k, s) ==
    /\ HandlesOf(k, s) # {}
    /\ ~ events[MaxOf(HandlesOf(k, s))].released

WaitCalled(k, s) ==
    /\ Len(log') > Len(log)
    /\ log'[Len(log) + 1] = [op |-> "Wait", k |-> k, s |-> s, r |-> FALSE]

\* C1: a Wait(s) on a slot with no RunAsync(s) outstanding (none since
\* construction or since the last successful Wait(s)) returns false in the
\* same step, without parking the host, and leaves every event slot, every
\* event and the process state unchanged.
C1_WaitWithoutRunAsyncIsNoOp ==
    [][\A k \in AllKernels, s \in Slots :
          (WaitCalled(k, s) /\ ~ Outstanding(k, s))
              => /\ ret' = FALSE
                 /\ hostWait' = <<>>
                 /\ log'[Len(log')] = [op |-> "WaitRet", k |-> k, s |-> s,
                                       r |-> FALSE]
                 /\ event_m' = event_m
                 /\ events' = events
                 /\ proc' = proc
                 /\ exitcode' = exitcode]_vars

\* A slot was issued and waited successfully, and two further Wait calls on
\* it both returned false.
C1_Witness ==
    \E i \in DOMAIN log, s \in Slots :
        /\ i + 4 <= Len(log)
        /\ log[i] = [op |-> "WaitRet", k |-> kut, s |-> s, r |-> TRUE]
        /\ log[i + 1] = [op |-> "Wait", k |-> kut, s |-> s, r |-> FALSE]
        /\ log[i + 2] = [op |-> "WaitRet", k |-> kut, s |-> s, r |-> FALSE]
        /\ log[i + 3] = [op |-> "Wait", k |-> kut, s |-> s, r |-> FALSE]
        /\ log[i + 4] = [op |-> "WaitRet", k |-> kut, s |-> s, r |-> FALSE]

(***************************************************************************)
(* C8                                                                      *)
(***************************************************************************)
Started(h) == events[h].st # "queued"

SameQueue(g, h) == QueueOf(events[g].kernel) = QueueOf(events[h].kernel)

\* C8 as stated: on every queue, DSP or EVE, a task enqueued earlier has
\* finished executing before a task enqueued later starts.
C8_FifoOnEveryQueue ==
    \A g \in Handles, h \in Handles :
        (g < h /\ SameQueue(g, h) /\ Started(h)) => Finished(g)

\* C8 as amended: on every queue of a DSP device (created in-order), a task
\* enqueued earlier has finished executing before a task enqueued later
\* starts; the EVE queues are created out-of-order and give no such order.
C8_FifoOnDspQueues ==
    \A g \in Handles, h \in Handles :
        (g < h /\ SameQueue(g, h) /\ Started(h)
               /\ events[h].kernel[1] = "DSP") => Finished(g)

\* Two tasks were enqueued on one DSP queue and the second one runs.
C8_Witness ==
    \E g \in Handles, h \in Handles :
        /\ g < h
        /\ SameQueue(g, h)
        /\ events[h].kernel[1] = "DSP"
        /\ events[g].st = "complete"
        /\ events[h].st = "running"

(***************************************************************************)
(* C4, C5, C6, C9: Executor construction                                   *)
(***************************************************************************)
Valid(c, ids) == ids \subseteq Present(c)

Constructing ==
    \/ xpc \in {"ctor", "init", "setup_wait", "setup_waited", "init_run",
                "init_wait", "init_waited"}
    \/ dcont = "thrown" /\ xpc \in {"d_cleanup_run", "d_cleanup_wait",
                                    "d_cleanup_waited"}

\* The INIT call of execution object u was issued, has completed on the
\* device and was waited.
InitCompleted(c, u) ==
    LET k == EOKernel(c, u, "INIT")
    IN  /\ HandlesOf(k, 0) # {}
        /\ \A h \in HandlesOf(k, 0) :
              events[h].st = "complete" /\ events[h].released
        /\ event_m[k][0] = NULL

\* C4 as stated: for a valid unit-id set, construction ends in one of two
\* ways only: it returns with |unitIds| execution objects that all
\* completed SETUP, or it throws and no execution object remains; nothing
\* else ends it.
C4_ReturnsCompleteOrThrows ==
    Valid(xc, xids) =>
        /\ xpc = "returned" =>
              /\ Len(EOs) = Cardinality(xids)
              /\ \A i \in DOMAIN EOs : InitCompleted(xc, EOs[i])
        /\ xpc = "thrown" => EOs = <<>>
        /\ Constructing => proc = "run"

\* C5: when the constructor has returned, SETUP (INIT) was issued on every
\* execution object the Executor owns, one per requested id, and the Wait
\* on it has completed.
C5_SetupWaitedOnReturn ==
    xpc = "returned" =>
        /\ Len(EOs) = Cardinality(xids)
        /\ \A i \in DOMAIN EOs : InitCompleted(xc, EOs[i])

\* An Executor with two execution objects has been returned to its caller.
C5_Witness ==
    /\ xpc = "returned"
    /\ Len(EOs) >= 2
    /\ proc = "run"

SetupWaitReturned ==
    \E i \in DOMAIN log :
        log[i] = [op |-> "WaitRet", k |-> SetupKernel, s |-> 0, r |-> TRUE]

\* C6: the parameter heap is allocated once and written by one device call
\* only, a setup kernel; once the Wait on that kernel has returned, no step
\* (device call of an execution object, host operation) writes or
\* reallocates it.
C6_HeapWrittenOnce ==
    [][/\ heap'[xc].allocs <= 1
       /\ Cardinality(heap'[xc].writers) <= 1
       /\ \A h \in heap'[xc].writers : events'[h].kernel = SetupKernel
       /\ SetupWaitReturned => heap' = heap]_vars

\* The Executor was built, used for SETUP on two execution objects and
\* torn down, the heap having been written by the setup kernel.
C6_Witness ==
    /\ xpc = "deleted"
    /\ Cardinality(xids) >= 2
    /\ heap[xc].allocs = 1
    /\ Cardinality(heap[xc].writers) = 1
    /\ \E h \in Handles : events[h].kernel[3] = "CLEANUP" /\ Finished(h)

\* C9 as stated: no fatal setup error and no device-reported error ends the
\* process from inside the library.
C9_NoErrorExitsTheProcess == proc # "exit"

(***************************************************************************)
(* C7: GetNumDevices                                                       *)
(***************************************************************************)
\* C7 as stated: a GetNumDevices call never ends in an exception, for
\* either device type, and on every detection failure it returns 0.
C7_GetNumDevicesNeverThrows ==
    \A c \in DeviceTypes :
        num_devs[c] # Unknown =>
            /\ num_devs[c].st = "returned"
            /\ DetectionFails(det, plat, c) => num_devs[c].n = 0

(***************************************************************************)
(* C2, C3: the driver loop of the example                                  *)
(***************************************************************************)
\* The frames ReadFrame has read successfully so far.
FramesRead == {i \in 0 .. (Len(reads) - 1) : reads[i + 1]}

Emitted == {emitted[i] : i \in DOMAIN emitted}

LoopDone ==
    mpc \in {"delete_eve", "deleting_eve", "delete_dsp", "deleting_dsp",
             "passed", "ret_passed"}

\* C2: WriteFrameOutput emits outputs of successfully read frames only,
\* in strictly increasing frame order (so each at most once), and when the
\* loop has ended the output of every successfully read frame was emitted.
C2_EveryFrameOnceInOrder ==
    /\ \A i \in DOMAIN emitted, j \in DOMAIN emitted :
          i < j => emitted[i] < emitted[j]
    /\ Emitted \subseteq FramesRead
    /\ LoopDone => Emitted = FramesRead

\* Two execution objects, double buffering (4 pipelines), three frames:
\* the program has passed and emitted frames 0, 1, 2.
C2_Witness ==
    /\ mpc = "ret_passed"
    /\ Len(eos) = 2
    /\ buffer_factor = 2
    /\ emitted = <<0, 1, 2>>

\* Pipeline e has issued a StartAsync that no Wait has resolved yet.
Unresolved(e) == event_m[EOP_Kernel(e)][eops[e].ctx] # NULL

UnresolvedOn(eo) == {e \in DOMAIN eops : eops[e].eo = eo /\ Unresolved(e)}

ProcessRunningOn(eo) ==
    {h \in Handles : /\ events[h].kernel = EOKernel(eo[1], eo[2], "PROCESS")
                     /\ events[h].st = "running"}

C10_ZeroOnlyOnSuccess ==
    proc = "exit" =>
        /\ exitcode = EXIT_SUCCESS => mpc = "ret_passed"
        /\ mpc \in {"ret_config", "ret_video", "ret_nodevice",
                     "ret_exception"} => exitcode = EXIT_FAILURE

\* The exit statuses of an OpenCL error code handed to exit().
ErrorCheckStatuses == {ExitStatus(c) : c \in -68 .. -1}

\* C10 as amended: the example exits with 0 when it passed, when no EVE
\* and no DSP was detected and when the arguments were rejected, and in no
\* other case; with 1 when the configuration file or the video setup
\* failed or a tidl::Exception was caught, and in no other case; a failing
\* OpenCL call ends it with the low byte of the OpenCL error code, a failed
\* assert or an uncaught exception with the number of SIGABRT.
C10_ExitCodes ==
    proc = "exit" =>
        /\ exitcode = EXIT_SUCCESS
              <=> mpc \in {"ret_passed", "ret_nodevice", "ret_args"}
        /\ exitcode = EXIT_FAILURE
              <=> mpc \in {"ret_config", "ret_video", "ret_exception"}
        /\ exitcode \notin {EXIT_SUCCESS, EXIT_FAILURE}
              => exitcode \in ErrorCheckStatuses \cup {SIGABRT}

\* On a platform that is no AM57 the example has ended with status 0.
C10_Witness ==
    /\ proc = "exit"
    /\ mpc = "ret_nodevice"
    /\ exitcode = EXIT_SUCCESS
    /\ num_devs = [c \in DeviceTypes |-> Returned(0)]

(***************************************************************************)
(* C11: Executor destruction                                               *)
(***************************************************************************)
\* The CLEANUP call of execution object u was issued, has completed on the
\* device and was waited.
CleanupCompleted(c, u) ==
    LET k == EOKernel(c, u, "CLEANUP")
    IN  /\ HandlesOf(k, 0) # {}
        /\ \A h \in HandlesOf(k, 0) :
              events[h].st = "complete" /\ events[h].released
        /\ event_m[k][0] = NULL

\* A step releases a command queue of the Device, or ends the destructor.
DeviceReleased ==
    \/ \E i \in DeviceIndexes :
          queue_m'[xc][i] = "released" /\ queue_m[xc][i] # "released"
    \/ xpc' # xpc /\ xpc' \in {"deleted", "thrown"}

\* C11: the Device is released, and the destructor ends, only in a step
\* before which CLEANUP was issued on every execution object the Executor
\* holds and each of these calls has completed and was waited.
C11_TeardownBeforeDeviceRelease ==
    [][DeviceReleased =>
          \A i \in DOMAIN EOs : CleanupCompleted(xc, EOs[i])]_vars

\* An Executor with two execution objects was deleted: both CLEANUP calls
\* completed and a queue was released.
C11_Witness ==
    /\ xpc = "deleted"
    /\ Cardinality(xids) >= 2
    /\ \A u \in xids : CleanupCompleted(xc, u)
    /\ \E i \in DeviceIndexes : queue_m[xc][i] = "released"

(***************************************************************************)
(* C12: GetAPIVersion                                                      *)
(***************************************************************************)
\* C12 as stated: every call of GetAPIVersion returns the string
\* <_BUILD_VER>.<_BUILD_SHA>, the k-th call the same string as the first.
C12_SameStringOnEveryCall ==
    \A k \in DOMAIN api_versions :
        /\ api_versions[k] = build.ver \o <<".">> \o build.sha
        /\ api_versions[k] = api_versions[1]

(***************************************************************************)
(* C13: validation of the requested unit ids                               *)
(***************************************************************************)
\* Device::Create has returned a Device to ExecutorImpl::ExecutorImpl.
DeviceConstructed ==
    xpc \in {"init", "setup_wait", "setup_waited", "init_run", "init_wait",
             "init_waited", "returned"}

\* C13 as stated: for a requested id set that is no subset of the present
\* units of the device type, Device construction fails and no command
\* queue exists at the index of a unit that is not present.
C13_InvalidIdsRejected ==
    ~ Valid(xc, xids) =>
        /\ ~ DeviceConstructed
        /\ \A i \in DeviceIndexes \ Present(xc) : queue_m[xc][i] = "null"

(***************************************************************************)
(* C14: Kernel destruction                                                 *)
(***************************************************************************)
OwnedBy(k) == {h \in DOMAIN mem : mem[h].owner = k}

\* C14: every buffer a destroyed Kernel created was released exactly once,
\* no buffer of a Kernel that is not destroyed was released, and a Kernel
\* created buffers for just those of its arguments that are not local, of
\* kind BUFFER and have host memory (none for nullptr, scalar and local
\* arguments).
C14_BuffersReleasedOnce ==
    /\ \A h \in DOMAIN mem :
          mem[h].releases = IF kstate[mem[h].owner] = "destroyed" THEN 1
                            ELSE 0
    /\ \A k \in BufKernels :
          kstate[k] \in {"built", "destroyed"} =>
              Cardinality(OwnedBy(k)) =
                  Cardinality({i \in DOMAIN kargs[k] :
                                  KeepsBuffer(kargs[k][i])})

\* One Kernel built over a buffer argument and an argument that gives no
\* buffer was destroyed while another Kernel with a buffer still exists.
C14_Witness ==
    \E k \in BufKernels, j \in BufKernels :
        /\ kstate[k] = "destroyed"
        /\ kstate[j] = "built"
        /\ Len(kargs[k]) = MaxArgs
        /\ Cardinality(OwnedBy(k)) = 1
        /\ OwnedBy(j) # {}

(***************************************************************************)
(* C15, C16: a pipeline over a chain of execution objects                  *)
(***************************************************************************)
\* What s stages in sequence make of frame f.
StagesApplied(f, s) == <<f>> \o [i \in 1 .. s |-> i]

\* A StartAsync / Wait pair has completed and nothing was started since.
WaitExposed == cpc = "idle" /\ cframes # <<>>

\* C15: after StartAsync followed by Wait the exposed output is the
\* content of the last stage's output buffer, which is what all stages in
\* sequence make of the frame handed in, and the reported time is the sum
\* of the stages' device times, so at least every single stage's time.
C15_OutputOfLastStageAndSummedTime ==
    WaitExposed =>
        /\ cout.out = cbuf[Len(chain) + 1]
        /\ cout.out = StagesApplied(cframes[Len(cframes)], Len(chain))
        /\ cout.time = SumSeq(ctimes)
        /\ \A s \in DOMAIN chain : cout.time >= ctimes[s]

\* A pipeline of MaxStages stages has processed its second frame, every
\* stage having taken device time.
C15_Witness ==
    /\ WaitExposed
    /\ Len(chain) = MaxStages
    /\ Len(cframes) = MaxChainFrames
    /\ \A s \in DOMAIN chain : ctimes[s] = MaxCycles
    /\ cout.time = MaxStages * MaxCycles

\* The call of stage s issued last.
LastCallOf(s) == MaxOf(HandlesOf(StageKernel(s), 0))

\* C16: whenever the device call of a stage after the first has started,
\* the call of the stage before it for the same frame has completed and
\* was issued before it, and while that call runs the input it read is the
\* content of the previous stage's output buffer, namely what the stages
\* before it make of the frame.
C16_StagesInSequence ==
    \A h \in Handles :
        (StageOf(h) > 1 /\ Started(h)) =>
            LET s == StageOf(h)
                g == MaxOf({x \in HandlesOf(StageKernel(s - 1), 0) : x < h})
            IN  /\ \E x \in HandlesOf(StageKernel(s - 1), 0) : x < h
                /\ events[g].st = "complete"
                /\ (h = LastCallOf(s) /\ events[h].st = "running") =>
                      /\ cread[s] = cbuf[s]
                      /\ cread[s] = StagesApplied(cframes[Len(cframes)], s - 1)

\* The last stage of a pipeline of MaxStages stages is running on its
\* second frame.
C16_Witness ==
    /\ Len(chain) = MaxStages
    /\ Len(cframes) = MaxChainFrames
    /\ HandlesOf(StageKernel(MaxStages), 0) # {}
    /\ events[LastCallOf(MaxStages)].st = "running"
    /\ Cardinality(HandlesOf(StageKernel(MaxStages), 0)) = MaxChainFrames

(***************************************************************************)
(* C17: the number of iterations of the driver loop                        *)
(***************************************************************************)
InLoop == mpc \in {"loop_wait", "loop_waited", "loop_read", "loop_start"}

\* The iteration has passed its ProcessFrameWait.
AfterWait == mpc \in {"loop_read", "loop_start"}

NumEops == buffer_factor * Len(eos)

\* The loop is never beyond its bound, has made num_frames + num_eops
\* iterations when it has ended, finds ProcessFrameWait false and emits
\* nothing in its first num_eops iterations, and neither reads nor starts
\* a frame once num_frames iterations were made.
IterationsOfTheLoop ==
    /\ InLoop => /\ Len(eops) = NumEops
                 /\ frame_idx <= opts.num_frames + NumEops
    /\ LoopDone => frame_idx = opts.num_frames + NumEops
    /\ (InLoop /\ frame_idx < NumEops /\ mpc # "loop_wait") => emitted = <<>>
    /\ (AfterWait /\ frame_idx < NumEops) => ~ ret
    /\ (InLoop /\ frame_idx <= NumEops /\ mpc = "loop_wait") => emitted = <<>>
    /\ (InLoop /\ frame_idx >= opts.num_frames) =>
          /\ mpc # "loop_start"
          /\ Len(reads) = opts.num_frames
    /\ (InLoop /\ frame_idx < opts.num_frames) =>
          Len(reads) = frame_idx + (IF mpc = "loop_start" THEN 1 ELSE 0)

LoopEntered == mpc = "loop_wait" /\ frame_idx = 0 /\ eops # <<>>

InFlight(e) ==
    {h \in HandlesOf(EOP_Kernel(e), eops[e].ctx) :
        events[h].st \in {"queued", "running"}}

\* The next step of the host is ReadFrame filling the input buffer of
\* pipeline e.
HostWritesInput(e) ==
    /\ proc = "run"
    /\ mpc = "loop_read"
    /\ frame_idx < opts.num_frames
    /\ e = CurrentEop

\* The next step of the host is WriteFrameOutput on the output buffer of
\* pipeline e.
HostReadsOutput(e) ==
    /\ proc = "run"
    /\ mpc = "loop_waited"
    /\ hostWait = <<>>
    /\ e = CurrentEop
    /\ ret
    /\ ~ EOP_WaitThrows(e)

\* C18: whenever the host is about to fill the input buffer of a pipeline
\* (ReadFrame) or to read its output buffer (WriteFrameOutput), that
\* pipeline has no unresolved StartAsync and no device call that is queued
\* or executing.
C18_NoHostAccessWhileInFlight ==
    \A e \in DOMAIN eops :
        (HostWritesInput(e) \/ HostReadsOutput(e)) =>
            /\ ~ Unresolved(e)
            /\ InFlight(e) = {}

\* The host is about to read the output of a pipeline whose call has
\* completed and been waited for, and about to refill its input later,
\* while another pipeline has a call in flight.
C18_Witness ==
    \E e \in DOMAIN eops, o \in DOMAIN eops :
        /\ e # o
        /\ HostReadsOutput(e)
        /\ outbuf[e] # NoFrame
        /\ InFlight(o) # {}

(***************************************************************************)
(* C19: one execution object, single buffering                             *)
(***************************************************************************)
SingleBuffered == Len(eos) = 1 /\ buffer_factor = 1

\* The device calls no device has finished yet.
AllInFlight == {h \in Handles : events[h].st \in {"queued", "running"}}

\* C19: with one execution object and buffer_factor = 1, whenever the
\* host is about to read a frame or to write an output no device call is
\* queued or executing, and when it is about to read a frame the output
\* of every frame read before has been emitted.
C19_SingleBufferingSerializes ==
    SingleBuffered =>
        \A e \in DOMAIN eops :
            /\ (HostWritesInput(e) \/ HostReadsOutput(e)) => AllInFlight = {}
            /\ HostWritesInput(e) => Emitted = FramesRead

\* Single buffering: frames 0 and 1 were read, computed and emitted, and
\* the host is about to read frame 2.
C19_Witness ==
    /\ SingleBuffered
    /\ HostWritesInput(1)
    /\ frame_idx = 2
    /\ emitted = <<0, 1>>

(***************************************************************************)
(* C20: double buffering overlaps host input with device compute           *)
(***************************************************************************)
\* The host is about to read a frame into the input buffer of pipeline e
\* while pipeline o has a device call queued or executing.
Overlap(e, o) ==
    /\ e \in DOMAIN eops
    /\ o \in DOMAIN eops
    /\ HostWritesInput(e)
    /\ InFlight(o) # {}

CallsOn(eo, ct) ==
    {h \in Handles : events[h].kernel = EOKernel(eo[1], eo[2], ct)}

\* The call has completed normally and its Wait has released the event.
Resolved(h) == events[h].st = "complete" /\ events[h].released

\* C21: in the example, a PROCESS call is issued on an execution object
\* only after an INIT call on it has completed successfully and been
\* waited for, and a CLEANUP call is issued on it (the Executors are
\* deleted) only when every PROCESS call issued on it has completed and
\* been waited for and none of its context slots holds an event, also when
\* ReadFrame failed for some frames.
C21_SetupComputeTeardownOrder ==
    \A c \in DeviceTypes, u \in DeviceIndexes :
        LET eo == <<c, u>>
        IN  /\ \A h \in CallsOn(eo, "PROCESS") :
                  \E g \in CallsOn(eo, "INIT") :
                      /\ g < h
                      /\ Resolved(g)
                      /\ events[g].code = "OCL_TIDL_SUCCESS"
            /\ (LoopDone \/ CallsOn(eo, "CLEANUP") # {}) =>
                  /\ \A h \in CallsOn(eo, "PROCESS") : Resolved(h)
                  /\ \A s \in Slots :
                        event_m[EOKernel(c, u, "PROCESS")][s] = NULL
            /\ \A h \in CallsOn(eo, "CLEANUP"), g \in CallsOn(eo, "PROCESS") :
                  g < h

\* The Executors are being deleted after a run in which ReadFrame failed
\* for one frame and succeeded for two: CLEANUP is issued on an execution
\* object that has processed frames.
C21_Witness ==
    /\ mpc \in {"deleting_eve", "deleting_dsp"}
    /\ \E i \in DOMAIN reads : ~ reads[i]
    /\ Cardinality(FramesRead) = 2
    /\ \E c \in DeviceTypes, u \in DeviceIndexes :
          /\ CallsOn(<<c, u>>, "CLEANUP") # {}
          /\ CallsOn(<<c, u>>, "PROCESS") # {}

(***************************************************************************)
(* C22: an error code of the setup kernel                                  *)
(***************************************************************************)
\* The error codes the setup kernel reports in setupParams->errorCode.
SetupErrorCodes ==
    DevResults(<<"DSP", 0, "SETUP">>) \ {"OCL_TIDL_SUCCESS", "ABNORMAL"}

InitCalls == {h \in Handles : events[h].kernel[3] = "INIT"}

\* InitializeNetworkParams is past its check of the error code.
SetupChecked == xpc \notin {"ctor", "init", "setup_wait", "setup_waited"}

\* C22: when the setup kernel has reported an error code other than
\* success, no execution object is ever constructed and no INIT call is
\* ever issued, and once the code was checked Initialize has thrown an
\* Exception whose message is the text of exactly that code; different
\* codes give different texts.
C22_SetupErrorThrowsBeforeEOs ==
    /\ \A h \in SetupCalls :
          events[h].code \in SetupErrorCodes =>
              /\ execution_objects_m[xc] = <<>>
              /\ InitCalls = {}
              /\ SetupChecked =>
                    /\ dcont = "thrown"
                    /\ exc = <<ExceptionText(events[h].code)>>
    /\ \A a \in SetupErrorCodes, b \in SetupErrorCodes :
          ExceptionText(a) = ExceptionText(b) => a = b

\* The constructor has ended with the exception for the create-params
\* mismatch code of the setup kernel.
C22_Witness ==
    /\ xpc = "thrown"
    /\ exc = <<ExceptionText("OCL_TIDL_CREATE_PARAMS_MISMATCH")>>
    /\ \E h \in SetupCalls :
          events[h].code = "OCL_TIDL_CREATE_PARAMS_MISMATCH"

(***************************************************************************)
(* C23: Wait blocks until the device has completed the call                *)
(***************************************************************************)
\* This step makes the Kernel call op.
Calls(op) == Len(log') > Len(log) /\ log'[Len(log) + 1].op = op

\* This step is the return of a parked Wait with true.
WaitReturnsTrue ==
    /\ hostWait # <<>>
    /\ hostWait' = <<>>
    /\ ret'
    /\ proc' = "run"

\* The event the parked Wait waits for.
Awaited == event_m[hostWait[1]][hostWait[2]]

\* A parked Wait returns true only when the event of the last RunAsync on
\* its slot is complete; it ends the process only when that event ended
\* abnormally; RunAsync and AddCallback leave the caller unparked.
WaitStep ==
    /\ WaitReturnsTrue =>
          /\ Awaited # NULL
          /\ Awaited = MaxOf(HandlesOf(hostWait[1], hostWait[2]))
          /\ events[Awaited].st = "complete"
    /\ (hostWait # <<>> /\ proc = "run" /\ proc' # "run") =>
          /\ Awaited # NULL
          /\ events[Awaited].st = "error"
    /\ (Calls("RunAsync") \/ Calls("AddCallback")) => hostWait' = <<>>

\* C23: a Wait on an issued slot returns true only after the device has
\* completed the task of the last RunAsync on that slot; with a device
\* that completes every task, every parked Wait returns, with true unless
\* the task ended abnormally (then errorCheck ends the process); RunAsync
\* and AddCallback never park the caller.
C23_WaitReturnsAfterCompletion ==
    /\ [][WaitStep]_vars
    /\ (hostWait # <<>>) ~> (hostWait = <<>> /\ (ret \/ proc # "run"))

\* The caller has issued a RunAsync, then an AddCallback that succeeded,
\* and a Wait has just returned true.
C23_Witness ==
    \E i \in DOMAIN log, j \in DOMAIN log, n \in DOMAIN log :
        /\ i < j /\ j < n
        /\ log[i].op = "RunAsync"
        /\ log[j].op = "AddCallback" /\ log[j].r
        /\ log[n].op = "WaitRet" /\ log[n].r
        /\ hostWait = <<>>
        /\ ret

(***************************************************************************)
(* C24: the lifecycle of a context slot                                    *)
(***************************************************************************)
\* This step makes the Kernel call op on slot s of kernel k.
CallsOnSlot(op, k, s) ==
    /\ Calls(op)
    /\ log'[Len(log) + 1].k = k
    /\ log'[Len(log) + 1].s = s

\* Idle -> Issued -> Idle, step by step.
SlotStep ==
    \A k \in AllKernels, s \in Slots :
        /\ (CallsOnSlot("RunAsync", k, s) /\ proc' = "run") =>
              /\ event_m'[k][s] = Len(events')
              /\ Len(events') = Len(events) + 1
        /\ (CallsOnSlot("Wait", k, s) /\ event_m[k][s] # NULL) =>
              /\ hostWait' = <<k, s>>
              /\ event_m' = event_m
        /\ (CallsOnSlot("Wait", k, s) /\ event_m[k][s] = NULL) =>
              /\ hostWait' = <<>>
              /\ ~ ret'
              /\ event_m' = event_m
        /\ (hostWait = <<k, s>> /\ hostWait' = <<>> /\ proc' = "run") =>
              /\ ret'
              /\ event_m'[k][s] = NULL

\* RunAsync(s) was only ever issued on an empty slot s.
IssuedOnEmptyOnly(k, s) ==
    \A g \in HandlesOf(k, s), h \in HandlesOf(k, s) :
        g < h => events[g].released

TrueWaits(k, s) ==
    {i \in DOMAIN log : log[i] = [op |-> "WaitRet", k |-> k, s |-> s,
                                  r |-> TRUE]}

WaitedRunAsyncs(k, s) ==
    {i \in DOMAIN log :
        /\ log[i].op = "RunAsync" /\ log[i].k = k /\ log[i].s = s
        /\ \E j \in DOMAIN log :
              j > i /\ log[j].op = "Wait" /\ log[j].k = k /\ log[j].s = s}

\* C24: RunAsync(s) puts a new event in slot s; a Wait(s) on an issued
\* slot parks the caller and, when it returns, returns true and has
\* emptied the slot; a Wait(s) on an empty slot returns false at once; and
\* while the caller is not parked and RunAsync(s) was only issued on an
\* empty slot, as many Wait(s) calls have returned true as RunAsync(s)
\* calls were followed by a Wait(s).
C24_SlotLifecycle ==
    /\ [][SlotStep]_vars
    /\ [] \A k \in AllKernels, s \in Slots :
            (proc = "run" /\ hostWait = <<>> /\ IssuedOnEmptyOnly(k, s)) =>
                Cardinality(TrueWaits(k, s)) =
                    Cardinality(WaitedRunAsyncs(k, s))

\* A slot was issued, waited with true, waited again with false, and
\* issued again.
C24_Witness ==
    \E s \in Slots, i \in DOMAIN log :
        /\ i + 3 <= Len(log)
        /\ log[i] = [op |-> "WaitRet", k |-> kut, s |-> s, r |-> TRUE]
        /\ log[i + 1] = [op |-> "Wait", k |-> kut, s |-> s, r |-> FALSE]
        /\ log[i + 2] = [op |-> "WaitRet", k |-> kut, s |-> s, r |-> FALSE]
        /\ log[i + 3].op = "RunAsync" /\ log[i + 3].s = s
        /\ event_m[kut][s] # NULL

(***************************************************************************)
(* C25: the events of RunAsync                                             *)
(***************************************************************************)
\* The events no slot of their kernel refers to any more.
Dropped == {h \in Handles : event_m[events[h].kernel][events[h].slot] # h}

\* C25 as stated: an event that has left its slot, by a Wait or by a
\* later RunAsync on the slot, has been released by a Wait.
C25_NoHandleOverwritten ==
    \A h \in Dropped : events[h].released

(***************************************************************************)
(* C26: the context slots of a Kernel are independent                      *)
(***************************************************************************)
\* This step is a Kernel call on slot s of kernel k or the return of the
\* Wait parked on it.
ActsOnSlot(k, s) ==
    \/ CallsOnSlot("RunAsync", k, s)
    \/ CallsOnSlot("Wait", k, s)
    \/ CallsOnSlot("AddCallback", k, s)
    \/ hostWait = <<k, s>> /\ hostWait' = <<>>

\* RunAsync, Wait and AddCallback on slot s leave the event handle and the
\* events of every other slot as they are.
OtherSlotsUntouched ==
    \A k \in AllKernels, s \in Slots, t \in Slots :
        (ActsOnSlot(k, s) /\ t # s) =>
            /\ event_m'[k][t] = event_m[k][t]
            /\ \A h \in HandlesOf(k, t) : events'[h] = events[h]

\* The handle in a slot is an event of that slot of that kernel that no
\* Wait has released: a Wait on the slot waits for it and returns true.
SlotsHoldTheirOwnEvents ==
    \A k \in AllKernels, t \in Slots :
        event_m[k][t] # NULL =>
            /\ event_m[k][t] \in HandlesOf(k, t)
            /\ ~ events[event_m[k][t]].released

\* C26: RunAsync(s), Wait(s) and AddCallback(s) change nothing of any
\* other slot t, and the handle slot t holds stays an unreleased event of
\* slot t, so that a Wait(t) still waits for it and returns true.
C26_SlotsIndependent ==
    /\ [][OtherSlotsUntouched]_vars
    /\ [] SlotsHoldTheirOwnEvents

\* With slot 1 issued and not waited, slot 0 was issued and waited with
\* true; slot 1 still holds its event.
C26_Witness ==
    \E i \in DOMAIN log :
        /\ i + 2 <= Len(log)
        /\ log[i].op = "RunAsync" /\ log[i].s = 1
        /\ log[i + 1].op = "RunAsync" /\ log[i + 1].s = 0
        /\ log[i + 2].op = "Wait" /\ log[i + 2].s = 0
        /\ log[Len(log)] = [op |-> "WaitRet", k |-> kut, s |-> 0, r |-> TRUE]
        /\ event_m[kut][1] # NULL
        /\ event_m[kut][0] = NULL

(***************************************************************************)
(* C27: the command queues at the destruction of a Device                  *)
(***************************************************************************)
\* C27 as stated: when an Executor constructed over a valid id set has
\* been deleted, the queue of every requested unit id has been released,
\* none is left open, and no other index was touched.
C27_OpenedQueuesReleased ==
    (xpc = "deleted" /\ Valid(xc, xids)) =>
        \A i \in DeviceIndexes :
            queue_m[xc][i] = IF i \in xids THEN "released" ELSE "null"

(***************************************************************************)
(* C28: the command queues after the construction of a Device              *)
(***************************************************************************)
\* C28: from the successful construction of the Device over a requested
\* id set that is a subset of the present units until the Executor is
\* deleted, queue_m holds an open queue at index i exactly for the ids i
\* of the set and null at every other index.
C28_QueuesAtRequestedIds ==
    (DeviceConstructed /\ Valid(xc, xids)) =>
        \A i \in DeviceIndexes :
            queue_m[xc][i] = IF i \in xids THEN "open" ELSE "null"

\* A Device over the second unit alone of a two-unit DSP: the Executor
\* has been constructed.
C28_Witness ==
    /\ xpc = "returned"
    /\ xc = "DSP"
    /\ plat.dspUnits = NUM_SUB_DEVICES
    /\ xids = {1}
    /\ queue_m["DSP"][1] = "open"
    /\ queue_m["DSP"][0] = "null"

(***************************************************************************)
(* C29: the lifetime of the create-params blob                             *)
(***************************************************************************)
\* The INIT and PROCESS calls that are issued and not finished.
EOCallsInFlight ==
    {h \in Handles : /\ events[h].kernel[3] \in {"INIT", "PROCESS"}
                     /\ events[h].st \in {"queued", "running"}}

\* C29 as stated: no INIT or PROCESS call of an execution object is queued
\* or executing once the memory of the create-params blob it was
\* constructed with has been freed.
C29_CreateParamsOutliveCalls ==
    CreateParamsFreed => EOCallsInFlight = {}

(***************************************************************************)
(* C30: the order of the device calls of Initialize and Cleanup            *)
(***************************************************************************)
\* The positions of the log where call type ct is issued on, or a Wait for
\* it begins on, unit u of the Executor's device class.
IssuedAt(u, ct) ==
    {j \in DOMAIN log : log[j].op = "RunAsync" /\ log[j].k = EOKernel(xc, u, ct)}

WaitsBegunAt(ct) ==
    {j \in DOMAIN log : /\ log[j].op = "Wait"
                        /\ \E u \in DeviceIndexes : log[j].k = EOKernel(xc, u, ct)}

\* Call type ct is issued on every execution object before the Wait of any
\* call of that type begins.
AllIssuedBeforeAnyWait(ct) ==
    \A j \in WaitsBegunAt(ct) :
        \A i \in DOMAIN EOs :
            \E n \in IssuedAt(EOs[i], ct) : n < j

\* The setup kernel was issued and a Wait on it returned before position j.
SetupDoneBefore(j) ==
    \E a, b \in 1..(j - 1) :
        /\ a < b
        /\ log[a].op = "RunAsync" /\ log[a].k = SetupKernel
        /\ log[b] = [op |-> "WaitRet", k |-> SetupKernel, s |-> 0, r |-> TRUE]

\* C30: once execution objects exist the setup kernel has been issued and
\* waited for, and no call was made on an execution object before that; INIT
\* is issued on every execution object before the Wait of any INIT begins;
\* CLEANUP is issued on every execution object before the Wait of any
\* CLEANUP begins.
C30_InitializeAndCleanupOrder ==
    /\ EOs # <<>> => SetupDoneBefore(Len(log) + 1)
    /\ \A j \in DOMAIN log : log[j].k # SetupKernel => SetupDoneBefore(j)
    /\ AllIssuedBeforeAnyWait("INIT")
    /\ AllIssuedBeforeAnyWait("CLEANUP")

\* Initialize waits for the first of two INIT calls while both execute on
\* their units, or Cleanup does so with two CLEANUP calls.
BothExecuting(ct) ==
    /\ Len(EOs) = 2
    /\ WaitsBegunAt(ct) # {}
    /\ \A i \in DOMAIN EOs :
          \E h \in Handles : /\ events[h].kernel = EOKernel(xc, EOs[i], ct)
                              /\ events[h].st = "running"

C30_Witness ==
    /\ xpc = "init_waited"
    /\ BothExecuting("INIT")

C30_WitnessCleanup ==
    /\ xpc = "d_cleanup_waited"
    /\ BothExecuting("CLEANUP")

(***************************************************************************)
(* C31: execution objects are bound one-to-one to the requested ids        *)
(***************************************************************************)
\* The number of requested ids smaller than unit u.
RankIn(ids, u) == Cardinality({v \in ids : v < u})

\* C31: once Initialize has built the execution objects there is one per
\* requested id, execution object i is bound to the i-th smallest id, no two
\* share a unit, every unit is a requested id, every call of an execution
\* object runs on its unit, and the setup kernel ran on the smallest id.
C31_EOsBoundToIds ==
    /\ EOs # <<>> =>
          /\ Len(EOs) = Cardinality(xids)
          /\ \A i \in DOMAIN EOs : /\ EOs[i] \in xids
                                    /\ RankIn(xids, EOs[i]) = i - 1
          /\ \A i, j \in DOMAIN EOs : EOs[i] = EOs[j] => i = j
    /\ \A h \in Handles :
          /\ events[h].kernel[1] = xc
          /\ events[h].kernel[2] \in xids
          /\ h \in SetupCalls => RankIn(xids, events[h].kernel[2]) = 0

\* An Executor on units {0, 1} has been returned: two execution objects, the
\* first on unit 0 and the second on unit 1, after a setup call on unit 0.
C31_Witness ==
    /\ xpc = "returned"
    /\ xids = {0, 1}
    /\ EOs = <<0, 1>>
    /\ SetupCalls # {}
    /\ \E h \in Handles : events[h].kernel = <<xc, 1, "INIT">>

(***************************************************************************)
(* C32: device_time adds the process time of the waited pipeline's EO      *)
(***************************************************************************)
\* A step of the driver loop in which ProcessFrameWait is over and has not
\* thrown.
WaitedStep == mpc = "loop_waited" /\ mpc' = "loop_read"

\* For one to three execution objects, a buffer_factor of one to three and
\* the first iterations, eops[i % num_eops] wraps eos[i % num_eos].
WrappedEoAtEveryFactor ==
    \A n \in 1 .. 3, bf \in 1 .. 3, i \in 0 .. 11 :
        LET es == [k \in 1 .. n |-> <<"EVE", k - 1>>]
            ps == EopsOver(es, bf)
        IN  ps[(i % Len(ps)) + 1].eo = es[(i % n) + 1]

\* C32: the iteration whose ProcessFrameWait returned true emits one frame
\* and adds to device_time one term, the process time of the execution
\* object that the waited pipeline wraps; no other step adds a term or
\* emits a frame, so device_time has one term per emitted frame.
C32_DeviceTimeOfWaitedEop ==
    /\ [][/\ (WaitedStep /\ ret) =>
                /\ device_time' = Append(device_time, eops[CurrentEop].eo)
                /\ Len(emitted') = Len(emitted) + 1
          /\ ~ (WaitedStep /\ ret) =>
                /\ device_time' = device_time
                /\ emitted' = emitted]_vars
    /\ [](Len(device_time) = Len(emitted) /\ WrappedEoAtEveryFactor)

\* With two execution objects and double buffering, three frames were
\* emitted: the third term of device_time is of the first execution object
\* again, waited through its second pipeline.
C32_Witness ==
    /\ Len(eos) = 2
    /\ buffer_factor = 2
    /\ Len(device_time) = 3
    /\ device_time[1] # device_time[2]
    /\ device_time[3] = device_time[1]

(***************************************************************************)
(* C33: the full-network override                                          *)
(***************************************************************************)
\* The layers of the network, as the file gives them and as prepared.
FileLayers == configuration_m.netBinFile.TIDLLayers

LayersOfNet == 1 .. net.numLayers

\* C33: once Initialize has prepared the network, with runFullNet set every
\* layer that is not a data layer has the caller's layers_group_id and
\* every data layer the group id of the network file; with runFullNet not
\* set every layer has the group id of the network file.  No layer's type
\* and no layer count is changed.
C33_FullNetOverride ==
    npc = "prepared" =>
        /\ net.numLayers = configuration_m.netBinFile.numLayers
        /\ \A i \in LayersOfNet :
              /\ net.TIDLLayers[i].layerType = FileLayers[i].layerType
              /\ net.TIDLLayers[i].layersGroupId =
                    IF /\ configuration_m.runFullNet
                       /\ FileLayers[i].layerType # "TIDL_DataLayer"
                    THEN layers_group_id_m
                    ELSE FileLayers[i].layersGroupId

\* A prepared network under runFullNet whose data layer kept a group id
\* other than the caller's and whose other layer was moved to the caller's.
C33_Witness ==
    /\ npc = "prepared"
    /\ configuration_m.runFullNet
    /\ net.numLayers >= 2
    /\ \E i, j \in LayersOfNet :
          /\ FileLayers[i].layerType = "TIDL_DataLayer"
          /\ net.TIDLLayers[i].layersGroupId # layers_group_id_m
          /\ FileLayers[j].layerType # "TIDL_DataLayer"
          /\ FileLayers[j].layersGroupId # layers_group_id_m
          /\ net.TIDLLayers[j].layersGroupId = layers_group_id_m

(***************************************************************************)
(* C34: AddCallback and the completion notification                        *)
(***************************************************************************)
\* A step that is a call of AddCallback, and the call's log entry.
AddCallbackStep ==
    /\ Len(log') = Len(log) + 1
    /\ log'[Len(log')].op = "AddCallback"

AddCallbackOnEmptySlot ==
    /\ AddCallbackStep
    /\ event_m[log'[Len(log')].k][log'[Len(log')].s] = NULL

\* The registrations and the wrapper calls, as sets.
Registered == {callbacks[j] : j \in DOMAIN callbacks}

Invoked == {invoked[i] : i \in DOMAIN invoked}

\* C34: AddCallback on a slot that holds no completion handle returns false
\* and registers nothing; no call of AddCallback changes a slot or an
\* event; every call of the callback wrapper is for a registered
\* notification, and a registered notification has called the wrapper
\* exactly when its event completed with status success, its user_data is
\* not null and a wrapper is linked.
C34_AddCallbackAndNotification ==
    /\ [][/\ AddCallbackOnEmptySlot =>
                /\ ~ log'[Len(log')].r
                /\ callbacks' = callbacks
                /\ invoked' = invoked
          /\ AddCallbackStep =>
                /\ event_m' = event_m
                /\ events' = events]_vars
    /\ [](/\ Invoked \subseteq Registered
          /\ \A c \in Registered :
                c \in Invoked <=> /\ events[c.h].st = "complete"
                                  /\ c.user_data # NULL
                                  /\ wrapper)

\* AddCallback was called on an empty slot and returned false, and a
\* notification registered later on a pending call has run the wrapper.
C34_Witness ==
    /\ \E i \in DOMAIN log : /\ log[i].op = "AddCallback"
                              /\ ~ log[i].r
                              /\ \A j \in 1 .. (i - 1) : log[j].op # "RunAsync"
    /\ invoked # <<>>

(***************************************************************************)
(* C35: what GetNumDevices returns on a supported platform                 *)
(***************************************************************************)
\* The product version a version string carries: the dot-separated decimal
\* fields from the string's first digit on, as numbers.
IsDigit(ch) == Ord(ch) >= 48 /\ Ord(ch) <= 57

RECURSIVE FromFirstDigit(_)
FromFirstDigit(s) ==
    IF s = <<>> \/ IsDigit(Head(s)) THEN s ELSE FromFirstDigit(Tail(s))

RECURSIVE VersionFields(_, _, _)
VersionFields(s, cur, acc) ==
    IF s = <<>> THEN Append(acc, cur)
    ELSE IF IsDigit(Head(s))
    THEN VersionFields(Tail(s), 10 * cur + (Ord(Head(s)) - 48), acc)
    ELSE IF Head(s) = "."
    THEN VersionFields(Tail(s), 0, Append(acc, cur))
    ELSE Append(acc, cur)

ProductVersion(v) ==
    IF FromFirstDigit(v) = <<>> THEN <<>>
    ELSE VersionFields(FromFirstDigit(v), 0, <<>>)

\* Version a is at least version b, field by field, a missing field being 0.
RECURSIVE VersionAtLeast(_, _)
VersionAtLeast(a, b) ==
    IF b = <<>> THEN TRUE
    ELSE LET x == IF a = <<>> THEN 0 ELSE Head(a)
             ra == IF a = <<>> THEN <<>> ELSE Tail(a)
         IN  IF x # Head(b) THEN x > Head(b)
             ELSE VersionAtLeast(ra, Tail(b))

\* A version string with fewer fields than the minimum carries no product
\* version.
AtLeastMinOclVersion(v) ==
    /\ Len(ProductVersion(v)) >= Len(ProductVersion(MIN_OCL_VERSION))
    /\ VersionAtLeast(ProductVersion(v), ProductVersion(MIN_OCL_VERSION))

NameHasAM57(d) == Find(d.name, <<"A", "M", "5", "7">>) # npos

\* A supported platform: its name contains AM57, its version is at least
\* the minimum, and every query of the runtime succeeds.
Supported(d) ==
    /\ d.fail = "none"
    /\ NameHasAM57(d)
    /\ AtLeastMinOclVersion(d.version)

\* C35 as stated: on a supported platform GetNumDevices(DSP) returns the
\* compute units of the first accelerator device and GetNumDevices(EVE) the
\* number of custom devices found; a result other than zero is returned
\* only on a platform named AM57 whose version is at least the minimum.
C35_GetNumDevicesOnSupportedPlatform ==
    \A c \in DeviceTypes :
        num_devs[c] # Unknown =>
            /\ Supported(det) =>
                    num_devs[c] =
                        Returned(IF c = "EVE" THEN plat.eves
                                 ELSE IF plat.dspDevs = 0 THEN 0
                                 ELSE plat.dspUnits)
            /\ (num_devs[c].st = "returned" /\ num_devs[c].n # 0) =>
                    NameHasAM57(det) /\ AtLeastMinOclVersion(det.version)

(***************************************************************************)
(* C36: the Kernel constructor binds its arguments by position             *)
(***************************************************************************)
IsBufferArg(arg) == ~ arg.local /\ arg.kind = "BUFFER"

IsScalarArg(arg) == ~ arg.local /\ arg.kind = "SCALAR"

\* The buffers of kernel k, and the kernels constructed and not destroyed.
BuffersOf(k) == {buffers_m[k][j] : j \in DOMAIN buffers_m[k]}

Built == {k \in BufKernels : kstate[k] = "built"}

\* C36: a constructed Kernel has made one clSetKernelArg call per element
\* of its argument list, the k-th element (from 0) at index k whatever the
\* kinds of the elements before it; a buffer argument passes a cl_mem,
\* null exactly when the argument has no host memory and else a buffer of
\* the kernel that no other argument passes; a scalar passes its own size
\* and pointer; a local argument its size and no host data.
C36_ArgsBoundByPosition ==
    \A k \in Built :
        /\ Len(setargs[k]) = Len(kargs[k])
        /\ \A i \in DOMAIN setargs[k] :
              LET arg == kargs[k][i]
                  set == setargs[k][i]
              IN  /\ set.arg_index = i - 1
                  /\ IsBufferArg(arg) =>
                        /\ set.arg_value.t = "cl_mem"
                        /\ set.arg_size = SizeofClMem
                        /\ (arg.ptr = "null") = (set.arg_value.v = NULL)
                        /\ arg.ptr # "null" =>
                              /\ set.arg_value.v \in BuffersOf(k)
                              /\ mem[set.arg_value.v].size = arg.size
                  /\ IsScalarArg(arg) =>
                        /\ set.arg_value = [t |-> "ptr", v |-> i]
                        /\ set.arg_size = arg.size
                  /\ arg.local =>
                        /\ set.arg_value = [t |-> "null", v |-> NULL]
                        /\ set.arg_size = arg.size
        /\ \A i, j \in DOMAIN setargs[k] :
              (/\ setargs[k][i].arg_value.t = "cl_mem"
               /\ setargs[k][i].arg_value.v # NULL
               /\ setargs[k][i].arg_value = setargs[k][j].arg_value) => i = j

\* A Kernel built over a buffer argument without host memory followed by
\* a scalar: the scalar is bound at index 1.
C36_Witness ==
    \E k \in Built :
        /\ Len(kargs[k]) = 2
        /\ IsBufferArg(kargs[k][1]) /\ kargs[k][1].ptr = "null"
        /\ IsScalarArg(kargs[k][2])
        /\ setargs[k][2].arg_index = 1

(***************************************************************************)
(* C37: Device::CreateBuffer                                               *)
(***************************************************************************)
\* The positions of the buffer arguments of kernel k, with and without
\* host memory.
BackedArgs(k) ==
    {i \in DOMAIN kargs[k] : IsBufferArg(kargs[k][i]) /\ kargs[k][i].ptr # "null"}

UnbackedArgs(k) ==
    {i \in DOMAIN kargs[k] : IsBufferArg(kargs[k][i]) /\ kargs[k][i].ptr = "null"}

MadeFor(k) == {h \in DOMAIN mem : mem[h].owner = k}

\* C37: for a buffer argument whose host pointer is null CreateBuffer
\* returned nullptr and made no buffer; for every other buffer argument
\* it made exactly one buffer, read-write and of the argument's size,
\* that uses the host memory when the pointer lies in device-visible
\* memory and copies it in otherwise.
C37_CreateBuffer ==
    \A k \in Built :
        /\ Cardinality(MadeFor(k)) = Cardinality(BackedArgs(k))
        /\ \A i \in UnbackedArgs(k) : setargs[k][i].arg_value.v = NULL
        /\ \A i \in BackedArgs(k) :
              LET h == setargs[k][i].arg_value.v
              IN  /\ h \in MadeFor(k)
                  /\ mem[h].size = kargs[k][i].size
                  /\ mem[h].flag =
                        {"CL_MEM_READ_WRITE",
                         IF kargs[k][i].ptr = "cmem"
                         THEN "CL_MEM_USE_HOST_PTR"
                         ELSE "CL_MEM_COPY_HOST_PTR"}

\* A Kernel built over a buffer in device-visible memory and a buffer in
\* other host memory: one zero-copy and one copy-in buffer exist.
C37_Witness ==
    \E k \in Built :
        /\ \E h \in MadeFor(k) : "CL_MEM_USE_HOST_PTR" \in mem[h].flag
        /\ \E h \in MadeFor(k) : "CL_MEM_COPY_HOST_PTR" \in mem[h].flag

(***************************************************************************)
(* C38: the message of an Exception                                        *)
(***************************************************************************)
\* The number a sequence of decimal digits with an optional sign denotes.
DigitValue(ch) ==
    CASE ch = "0" -> 0 [] ch = "1" -> 1 [] ch = "2" -> 2 [] ch = "3" -> 3
      [] ch = "4" -> 4 [] ch = "5" -> 5 [] ch = "6" -> 6 [] ch = "7" -> 7
      [] ch = "8" -> 8 [] ch = "9" -> 9

RECURSIVE DecimalValue(_, _)
DecimalValue(s, acc) ==
    IF s = <<>> THEN acc
    ELSE DecimalValue(Tail(s), 10 * acc + DigitValue(Head(s)))

\* text is the decimal form of n: a minus sign for a negative number, then
\* its digits with no leading zero.
IsDecimalOf(text, n) ==
    LET digits == IF n < 0 THEN Tail(text) ELSE text
    IN  /\ text # <<>>
        /\ n < 0 => Head(text) = "-"
        /\ digits # <<>>
        /\ \A i \in DOMAIN digits :
              digits[i] \in {"0", "1", "2", "3", "4", "5", "6", "7", "8", "9"}
        /\ Len(digits) > 1 => digits[1] # "0"
        /\ DecimalValue(digits, 0) = (IF n < 0 THEN 0 - n ELSE n)

\* message is "TIDL Error: [<file>, <func>, <line>]: " followed by rest.
HasLocationPrefix(message, e, rest) ==
    \E line \in SeqsUpTo({"0", "1", "2", "3", "4", "5", "6", "7", "8", "9"}, 3) :
        /\ IsDecimalOf(line, e.line_no)
        /\ message = <<"TIDL Error: [", e.file, ", ", e.func, ", ">>
                        \o line \o <<"]: ">> \o rest

\* The dedicated text of a named error code.
DedicatedText(name) ==
    CASE name = "OCL_TIDL_ERROR" -> <<>>
      [] name = "OCL_TIDL_ALLOC_FAIL" -> <<"Allocation failed on device">>
      [] name = "OCL_TIDL_MEMREC_ALLOC_FAIL" ->
            <<"Memrec allocation failed on device">>
      [] name = "OCL_TIDL_PROCESS_FAIL" -> <<"Process call failed on device">>
      [] name = "OCL_TIDL_CREATE_PARAMS_MISMATCH" ->
            <<"TIDL_CreateParams definition inconsistent across hostand device.">>

\* C38: the message of an Exception built from an error string is the
\* location prefix followed by the error; that of one built from an error
\* code is the prefix followed by the dedicated text of a named code
\* (nothing for the generic error code) and by the decimal form of any
\* other code; what() returns the message unchanged.
C38_ExceptionMessage ==
    /\ \A i \in DOMAIN eobj :
          LET e == eobj[i]
          IN  IF e.ctor = "error"
              THEN HasLocationPrefix(e.message_m, e,
                                     IF e.error = "" THEN <<>> ELSE <<e.error>>)
              ELSE IF e.errorCode.name \in NamedCodes
              THEN HasLocationPrefix(e.message_m, e,
                                     DedicatedText(e.errorCode.name))
              ELSE \E text \in SeqsUpTo({"-", "0", "1", "2", "3", "4", "5",
                                         "6", "7", "8", "9"}, 3) :
                      /\ IsDecimalOf(text, e.errorCode.value)
                      /\ HasLocationPrefix(e.message_m, e, text)
    /\ \A i \in DOMAIN ewhat : ewhat[i] = eobj[1].message_m

\* what() was called on an Exception built from an error code without a
\* text of its own, a negative one, at line 173.
C38_Witness ==
    /\ ewhat # <<>>
    /\ eobj[1].ctor = "code"
    /\ eobj[1].errorCode = [name |-> "", value |-> 0 - 13]
    /\ eobj[1].line_no = 173
    /\ ewhat[1] = <<"TIDL Error: [", eobj[1].file, ", ", eobj[1].func, ", ",
                    "1", "7", "3", "]: ", "-", "1", "3">>

====
